---- MODULE Spec2Model ----
(***************************************************************************)
(* Model of the sprite-playground core: the universal script parser        *)
(* (src/game/engine.ts, parseUniversalCode), the declarative world loader  *)
(* (parseWorldHTML / parseCode) and the step player (src/unnamed/part_018, *)
(* the App component).                                                     *)
(*                                                                         *)
(* Source text is modelled character by character: a line is a sequence of *)
(* one-character strings and every regular expression of the parser is an  *)
(* operator over such sequences.  JavaScript numbers are decimal records   *)
(* [m, e] standing for m / 10^e; NaN is a record of its own.               *)
(***************************************************************************)
EXTENDS Integers, Sequences, FiniteSets, Bags, TLC

(***************************************************************************)
(* Characters and character classes of the regular expressions.            *)
(***************************************************************************)
Digit == {"0", "1", "2", "3", "4", "5", "6", "7", "8", "9"}

Lower ==
  {"a", "b", "c", "d", "e", "f", "g", "h", "i", "j", "k", "l", "m",
   "n", "o", "p", "q", "r", "s", "t", "u", "v", "w", "x", "y", "z"}

Upper ==
  {"A", "B", "C", "D", "E", "F", "G", "H", "I", "J", "K", "L", "M",
   "N", "O", "P", "Q", "R", "S", "T", "U", "V", "W", "X", "Y", "Z"}

\* \w
WordChar == Digit \cup Lower \cup Upper \cup {"_"}

\* \s (the white space that can occur inside one line)
Space == {" ", "\t"}

\* ["']
Quote == {"\"", "'"}

\* [\d.-]
NumChar == Digit \cup {".", "-"}

(***************************************************************************)
(* Strings as character sequences.                                         *)
(***************************************************************************)
RECURSIVE Str(_)
\* the TLA+ string spelled by a character sequence
Str(s) == IF s = <<>> THEN "" ELSE s[1] \o Str(Tail(s))

Slice(s, from, to) == IF from > to THEN <<>> ELSE SubSeq(s, from, to)

StartsWithAt(s, p, lit) ==
  /\ p + Len(lit) - 1 <= Len(s)
  /\ \A k \in 1..Len(lit) : s[p + k - 1] = lit[k]

RECURSIVE RunEnd(_, _, _)
\* last position of the maximal run of characters of class C that starts at
\* position p; p - 1 when the run is empty (a greedy C* at p)
RunEnd(s, p, C) ==
  IF p <= Len(s) /\ s[p] \in C THEN RunEnd(s, p + 1, C) ELSE p - 1

RECURSIVE RunStart(_, _, _)
\* first position of the maximal run of class C that ends at position p
RunStart(s, p, C) ==
  IF p >= 1 /\ s[p] \in C THEN RunStart(s, p - 1, C) ELSE p + 1

\* String.prototype.trim
Trim(s) == Slice(s, RunEnd(s, 1, Space) + 1, RunStart(s, Len(s), Space) - 1)

\* the quotes are left in place
StripQuotes_keep(s) == s

\* s.replace(/^["']|["']$/g, '')
StripQuotes(s) ==
  LET a == IF Len(s) >= 1 /\ s[1] \in Quote THEN 2 ELSE 1
      b == IF Len(s) >= a /\ s[Len(s)] \in Quote THEN Len(s) - 1 ELSE Len(s)
  IN  Slice(s, a, b)

\* s.replace(/'|"/g, '')
RemoveQuotes(s) == SelectSeq(s, LAMBDA c : c \notin Quote)

RECURSIVE SplitAt(_, _)
\* s.split(c) for a one-character separator
SplitAt(s, c) ==
  LET P == {p \in 1..Len(s) : s[p] = c}
  IN  IF P = {} THEN <<s>>
      ELSE LET p == CHOOSE q \in P : \A r \in P : q <= r
           IN  <<Slice(s, 1, p - 1)>> \o SplitAt(Slice(s, p + 1, Len(s)), c)

(***************************************************************************)
(* JavaScript numbers.  A finite number is [m |-> mantissa, e |-> number   *)
(* of decimals], kept normalised (no trailing zero decimal).               *)
(***************************************************************************)
NaN == [m |-> 0, e |-> -1]

IsNaN(v) == v.e < 0

RECURSIVE Norm(_)
Norm(v) ==
  IF v.e > 0 /\ v.m % 10 = 0 THEN Norm([m |-> v.m \div 10, e |-> v.e - 1])
  ELSE v

\* the number n
Num(n) == [m |-> n, e |-> 0]

RECURSIVE Pow10(_)
Pow10(k) == IF k <= 0 THEN 1 ELSE 10 * Pow10(k - 1)

\* seconds taken for milliseconds
Times1000_noScale(v) == v

\* v * 1000
Times1000(v) ==
  IF IsNaN(v) THEN NaN
  ELSE IF v.e >= 3 THEN Norm([m |-> v.m, e |-> v.e - 3])
  ELSE [m |-> v.m * Pow10(3 - v.e), e |-> 0]

DigitValue(c) ==
  CASE c = "0" -> 0 [] c = "1" -> 1 [] c = "2" -> 2 [] c = "3" -> 3
    [] c = "4" -> 4 [] c = "5" -> 5 [] c = "6" -> 6 [] c = "7" -> 7
    [] c = "8" -> 8 [] c = "9" -> 9

RECURSIVE DigitsValue(_)
\* the value of a sequence of decimal digits (0 for the empty sequence)
DigitsValue(ds) ==
  IF ds = <<>> THEN 0
  ELSE 10 * DigitsValue(Slice(ds, 1, Len(ds) - 1)) + DigitValue(ds[Len(ds)])

\* parseInt(s, 10): leading white space, an optional sign, then the longest
\* run of digits; NaN when there is no digit
ParseInt(s) ==
  LET p   == RunEnd(s, 1, Space) + 1
      neg == p <= Len(s) /\ s[p] = "-"
      q   == IF p <= Len(s) /\ s[p] \in {"-", "+"} THEN p + 1 ELSE p
      r   == RunEnd(s, q, Digit)
      v   == DigitsValue(Slice(s, q, r))
  IN  IF r < q THEN NaN ELSE Num(IF neg THEN 0 - v ELSE v)

\* parseFloat(s): leading white space, an optional sign, digits, an optional
\* fraction; NaN when there is no digit.  (Exponents are not modelled: no
\* literal of the modelled scripts has one.)
ParseFloat(s) ==
  LET p    == RunEnd(s, 1, Space) + 1
      neg  == p <= Len(s) /\ s[p] = "-"
      q    == IF p <= Len(s) /\ s[p] \in {"-", "+"} THEN p + 1 ELSE p
      r    == RunEnd(s, q, Digit)
      dot  == r + 1 <= Len(s) /\ s[r + 1] = "."
      f    == IF dot THEN RunEnd(s, r + 2, Digit) ELSE r
      int  == Slice(s, q, r)
      frac == IF dot THEN Slice(s, r + 2, f) ELSE <<>>
      v    == DigitsValue(int \o frac)
  IN  IF int = <<>> /\ frac = <<>> THEN NaN
      ELSE Norm([m |-> IF neg THEN 0 - v ELSE v, e |-> Len(frac)])

(***************************************************************************)
(* The regular expressions of parseUniversalCode.  A match is a record     *)
(* with ok = TRUE and the capture groups g1, g2, g3; NoMatch otherwise.    *)
(***************************************************************************)
NoMatch == [ok |-> FALSE, g1 |-> <<>>, g2 |-> <<>>, g3 |-> <<>>]

Match(a, b, c) == [ok |-> TRUE, g1 |-> a, g2 |-> b, g3 |-> c]

Chars_import == <<"i", "m", "p", "o", "r", "t">>
Chars_aiSprite == <<"a", "i", ".", "S", "p", "r", "i", "t", "e", "(">>
Chars_print == <<"p", "r", "i", "n", "t", "(">>
Chars_consoleLog == <<"c", "o", "n", "s", "o", "l", "e", ".", "l", "o", "g", "(">>
Chars_True == <<"T", "r", "u", "e">>
Chars_False == <<"F", "a", "l", "s", "e">>

\* position of the first comment marker of /(#|\/\/|--).*/, 0 when none
CommentStart(s) ==
  LET P == {p \in 1..Len(s) :
              \/ s[p] = "#"
              \/ StartsWithAt(s, p, <<"/", "/">>)
              \/ StartsWithAt(s, p, <<"-", "-">>)}
  IN  IF P = {} THEN 0 ELSE CHOOSE p \in P : \A q \in P : p <= q

\* lines[i].trim().replace(/(#|\/\/|--).*/, '').trim()
StripComment(line) ==
  LET t == Trim(line)
      c == CommentStart(t)
  IN  IF c = 0 THEN t ELSE Trim(Slice(t, 1, c - 1))

\* /^\s*import\s+([\w,\s]+);?$/ on a trimmed line
importMatch(t) ==
  LET ws   == RunEnd(t, 7, Space)
      last == IF Len(t) >= 1 /\ t[Len(t)] = ";" THEN Len(t) - 1 ELSE Len(t)
      rest == Slice(t, ws + 1, last)
      Cls  == WordChar \cup Space \cup {","}
  IN  IF ~StartsWithAt(t, 1, Chars_import) \/ ws < 7 THEN NoMatch
      ELSE IF rest # <<>> THEN
             IF \A k \in 1..Len(rest) : rest[k] \in Cls
             THEN Match(rest, <<>>, <<>>) ELSE NoMatch
      \* nothing after the white space: \s+ gives one character back
      ELSE IF ws >= 8 /\ last >= ws THEN Match(<<t[ws]>>, <<>>, <<>>)
      ELSE NoMatch

\* /^(\w+)\s*=\s*ai\.Sprite\((.*)\)$/
creationMatch(t) ==
  LET w  == RunEnd(t, 1, WordChar)
      eq == RunEnd(t, w + 1, Space) + 1
      a  == RunEnd(t, eq + 1, Space) + 1
      b  == a + Len(Chars_aiSprite)
  IN  IF /\ w >= 1
         /\ eq <= Len(t) /\ t[eq] = "="
         /\ StartsWithAt(t, a, Chars_aiSprite)
         /\ Len(t) >= b /\ t[Len(t)] = ")"
      THEN Match(Slice(t, 1, w), Slice(t, b, Len(t) - 1), <<>>)
      ELSE NoMatch

\* /^(?:print|console\.log)\((.*)\)$/
printMatch(t) ==
  LET lit == IF StartsWithAt(t, 1, Chars_print) THEN Len(Chars_print)
             ELSE IF StartsWithAt(t, 1, Chars_consoleLog)
                  THEN Len(Chars_consoleLog) ELSE 0
  IN  IF lit > 0 /\ Len(t) > lit /\ t[Len(t)] = ")"
      THEN Match(Slice(t, lit + 1, Len(t) - 1), <<>>, <<>>)
      ELSE NoMatch

\* /^(\w+)[.](\w+)\((.*)\)$/ : the call expression if it took '.' alone
libCallMatch_dotOnly(t) ==
  LET w == RunEnd(t, 1, WordChar)
      m == RunEnd(t, w + 2, WordChar)
  IN  IF /\ w >= 1
         /\ w + 1 <= Len(t) /\ t[w + 1] = "."
         /\ m >= w + 2
         /\ m + 1 <= Len(t) /\ t[m + 1] = "("
         /\ Len(t) >= m + 2 /\ t[Len(t)] = ")"
      THEN Match(Slice(t, 1, w), Slice(t, w + 2, m), Slice(t, m + 2, Len(t) - 1))
      ELSE NoMatch

\* /^(\w+)[.:](\w+)\((.*)\)$/ ; the sprite call expression
\* /^(\w+)[.:]([\w_]+)\((.*)\)$/ matches the same lines with the same groups
libCallMatch(t) ==
  LET w == RunEnd(t, 1, WordChar)
      m == RunEnd(t, w + 2, WordChar)
  IN  IF /\ w >= 1
         /\ w + 1 <= Len(t) /\ t[w + 1] \in {".", ":"}
         /\ m >= w + 2
         /\ m + 1 <= Len(t) /\ t[m + 1] = "("
         /\ Len(t) >= m + 2 /\ t[Len(t)] = ")"
      THEN Match(Slice(t, 1, w), Slice(t, w + 2, m), Slice(t, m + 2, Len(t) - 1))
      ELSE NoMatch

spriteCallMatch(t) == libCallMatch(t)

(***************************************************************************)
(* parseArgs.  The argument table is the sequence of its entries in        *)
(* insertion order.                                                        *)
(***************************************************************************)
RECURSIVE QuotedEnd(_, _)
\* (?:[^"'\\]|\\.)*["'] from position p: position of the closing quote, 0
\* when the text ends first
QuotedEnd(s, p) ==
  IF p > Len(s) THEN 0
  ELSE IF s[p] \in Quote THEN p
  ELSE IF s[p] = "\\" THEN (IF p + 1 > Len(s) THEN 0 ELSE QuotedEnd(s, p + 2))
  ELSE QuotedEnd(s, p + 1)

\* end of the value alternatives
\*   f?["'](?:[^"'\\]|\\.)*["'] | [\d.-]+ | True | False | \w+\.\w+
\* tried in this order at position r; 0 when none matches
ValueEnd(s, r) ==
  LET open == IF r <= Len(s) /\ s[r] = "f" /\ r + 1 <= Len(s) /\ s[r + 1] \in Quote
              THEN r + 1
              ELSE IF r <= Len(s) /\ s[r] \in Quote THEN r ELSE 0
      close == IF open = 0 THEN 0 ELSE QuotedEnd(s, open + 1)
      num   == RunEnd(s, r, NumChar)
      w1    == RunEnd(s, r, WordChar)
      w2    == RunEnd(s, w1 + 2, WordChar)
  IN  IF close > 0 THEN close
      ELSE IF num >= r THEN num
      ELSE IF StartsWithAt(s, r, Chars_True) THEN r + 3
      ELSE IF StartsWithAt(s, r, Chars_False) THEN r + 4
      ELSE IF w1 >= r /\ w1 + 1 <= Len(s) /\ s[w1 + 1] = "." /\ w2 >= w1 + 2
           THEN w2
      ELSE 0

\* args[key] = val
PutArg(args, key, val) ==
  IF \E k \in 1..Len(args) : args[k].key = key
  THEN [k \in 1..Len(args) |->
          IF args[k].key = key THEN [key |-> key, val |-> val] ELSE args[k]]
  ELSE Append(args, [key |-> key, val |-> val])

RECURSIVE ParseArgsFrom(_, _, _)
\* the exec loop of parseArgs over
\*   /(\w+)\s*[:=]\s*(value)/g        from position p
ParseArgsFrom(s, p, args) ==
  IF p > Len(s) THEN args
  ELSE IF s[p] \notin WordChar THEN ParseArgsFrom(s, p + 1, args)
  ELSE LET e == RunEnd(s, p, WordChar)
           q == RunEnd(s, e + 1, Space) + 1
           r == RunEnd(s, q + 1, Space) + 1
           v == IF q <= Len(s) /\ s[q] \in {":", "="} THEN ValueEnd(s, r) ELSE 0
       IN  IF v > 0
           THEN ParseArgsFrom(s, v + 1, PutArg(args, Str(Slice(s, p, e)), Slice(s, r, v)))
           ELSE ParseArgsFrom(s, e + 1, args)

parseArgs(argsString) == ParseArgsFrom(argsString, 1, <<>>)

\* args.key ; the empty sequence stands for undefined (no captured value is
\* empty)
Arg(args, key) ==
  IF \E k \in 1..Len(args) : args[k].key = key
  THEN args[CHOOSE k \in 1..Len(args) : args[k].key = key].val
  ELSE <<>>

\* a || b on strings
OrElse(a, b) == IF a = <<>> THEN b ELSE a

(***************************************************************************)
(* Error messages (the texts thrown by the parser), as character           *)
(* sequences.                                                              *)
(***************************************************************************)
\* "Unknown library '"
Msg_UnknownLibrary_1 ==
  <<"U", "n", "k", "n", "o", "w", "n", " ", "l", "i", "b", "r", "a", "r",
    "y", " ", "'">>

\* "'. Available: ai, world, physics, sound, neurons."
Msg_UnknownLibrary_2 ==
  <<"'", ".", " ", "A", "v", "a", "i", "l", "a", "b", "l", "e", ":", " ",
    "a", "i", ",", " ", "w", "o", "r", "l", "d", ",", " ", "p", "h", "y",
    "s", "i", "c", "s", ",", " ", "s", "o", "u", "n", "d", ",", " ", "n",
    "e", "u", "r", "o", "n", "s", ".">>

\* "Library '"
Msg_NotImported_1 ==
  <<"L", "i", "b", "r", "a", "r", "y", " ", "'">>

\* "' not imported. Add 'import "
Msg_NotImported_2 ==
  <<"'", " ", "n", "o", "t", " ", "i", "m", "p", "o", "r", "t", "e", "d",
    ".", " ", "A", "d", "d", " ", "'", "i", "m", "p", "o", "r", "t", " ">>

\* "' to the top of your file."
Msg_NotImported_3 ==
  <<"'", " ", "t", "o", " ", "t", "h", "e", " ", "t", "o", "p", " ", "o",
    "f", " ", "y", "o", "u", "r", " ", "f", "i", "l", "e", ".">>

\* "Sprite() requires a 'name' argument."
Msg_RequiresName ==
  <<"S", "p", "r", "i", "t", "e", "(", ")", " ", "r", "e", "q", "u", "i",
    "r", "e", "s", " ", "a", " ", "'", "n", "a", "m", "e", "'", " ", "a",
    "r", "g", "u", "m", "e", "n", "t", ".">>

\* "Variable '"
Msg_VariableDefined_1 ==
  <<"V", "a", "r", "i", "a", "b", "l", "e", " ", "'">>

\* "' is already defined."
Msg_VariableDefined_2 ==
  <<"'", " ", "i", "s", " ", "a", "l", "r", "e", "a", "d", "y", " ", "d",
    "e", "f", "i", "n", "e", "d", ".">>

\* "A sprite named '"
Msg_SpriteExists_1 ==
  <<"A", " ", "s", "p", "r", "i", "t", "e", " ", "n", "a", "m", "e", "d",
    " ", "'">>

\* "' already exists."
Msg_SpriteExists_2 ==
  <<"'", " ", "a", "l", "r", "e", "a", "d", "y", " ", "e", "x", "i", "s",
    "t", "s", ".">>

\* "'"
Msg_NoMethod_1 ==
  <<"'">>

\* "' has no method named '"
Msg_NoMethod_2 ==
  <<"'", " ", "h", "a", "s", " ", "n", "o", " ", "m", "e", "t", "h", "o",
    "d", " ", "n", "a", "m", "e", "d", " ", "'">>

\* "'."
Msg_NoMethod_3 ==
  <<"'", ".">>

\* "Invalid syntax or unknown command."
Msg_InvalidSyntax ==
  <<"I", "n", "v", "a", "l", "i", "d", " ", "s", "y", "n", "t", "a", "x",
    " ", "o", "r", " ", "u", "n", "k", "n", "o", "w", "n", " ", "c", "o",
    "m", "m", "a", "n", "d", ".">>

\* "Invalid duration for say()."
Msg_SayDuration ==
  <<"I", "n", "v", "a", "l", "i", "d", " ", "d", "u", "r", "a", "t", "i",
    "o", "n", " ", "f", "o", "r", " ", "s", "a", "y", "(", ")", ".">>

\* "move_to() requires numeric 'x' and 'y' arguments."
Msg_MoveToXY ==
  <<"m", "o", "v", "e", "_", "t", "o", "(", ")", " ", "r", "e", "q", "u",
    "i", "r", "e", "s", " ", "n", "u", "m", "e", "r", "i", "c", " ", "'",
    "x", "'", " ", "a", "n", "d", " ", "'", "y", "'", " ", "a", "r", "g",
    "u", "m", "e", "n", "t", "s", ".">>

\* "Invalid speed for move_to()."
Msg_MoveToSpeed ==
  <<"I", "n", "v", "a", "l", "i", "d", " ", "s", "p", "e", "e", "d", " ",
    "f", "o", "r", " ", "m", "o", "v", "e", "_", "t", "o", "(", ")", ".">>

\* "go_to() requires numeric 'x' and 'y' arguments."
Msg_GoToXY ==
  <<"g", "o", "_", "t", "o", "(", ")", " ", "r", "e", "q", "u", "i", "r",
    "e", "s", " ", "n", "u", "m", "e", "r", "i", "c", " ", "'", "x", "'",
    " ", "a", "n", "d", " ", "'", "y", "'", " ", "a", "r", "g", "u", "m",
    "e", "n", "t", "s", ".">>

\* "Invalid speed for go_to()."
Msg_GoToSpeed ==
  <<"I", "n", "v", "a", "l", "i", "d", " ", "s", "p", "e", "e", "d", " ",
    "f", "o", "r", " ", "g", "o", "_", "t", "o", "(", ")", ".">>

\* "rotate_to() requires a numeric 'angle' argument."
Msg_RotateToAngle ==
  <<"r", "o", "t", "a", "t", "e", "_", "t", "o", "(", ")", " ", "r", "e",
    "q", "u", "i", "r", "e", "s", " ", "a", " ", "n", "u", "m", "e", "r",
    "i", "c", " ", "'", "a", "n", "g", "l", "e", "'", " ", "a", "r", "g",
    "u", "m", "e", "n", "t", ".">>

\* "Invalid speed for rotate_to()."
Msg_RotateToSpeed ==
  <<"I", "n", "v", "a", "l", "i", "d", " ", "s", "p", "e", "e", "d", " ",
    "f", "o", "r", " ", "r", "o", "t", "a", "t", "e", "_", "t", "o", "(",
    ")", ".">>

\* "look_at() requires numeric 'x' and 'y' arguments."
Msg_LookAtXY ==
  <<"l", "o", "o", "k", "_", "a", "t", "(", ")", " ", "r", "e", "q", "u",
    "i", "r", "e", "s", " ", "n", "u", "m", "e", "r", "i", "c", " ", "'",
    "x", "'", " ", "a", "n", "d", " ", "'", "y", "'", " ", "a", "r", "g",
    "u", "m", "e", "n", "t", "s", ".">>

\* "Invalid speed for look_at()."
Msg_LookAtSpeed ==
  <<"I", "n", "v", "a", "l", "i", "d", " ", "s", "p", "e", "e", "d", " ",
    "f", "o", "r", " ", "l", "o", "o", "k", "_", "a", "t", "(", ")", ".">>

\* "Invalid speed for set_style()."
Msg_SetStyleSpeed ==
  <<"I", "n", "v", "a", "l", "i", "d", " ", "s", "p", "e", "e", "d", " ",
    "f", "o", "r", " ", "s", "e", "t", "_", "s", "t", "y", "l", "e", "(",
    ")", ".">>

\* "world.set_background() requires a 'color' argument."
Msg_SetBackground ==
  <<"w", "o", "r", "l", "d", ".", "s", "e", "t", "_", "b", "a", "c", "k",
    "g", "r", "o", "u", "n", "d", "(", ")", " ", "r", "e", "q", "u", "i",
    "r", "e", "s", " ", "a", " ", "'", "c", "o", "l", "o", "r", "'", " ",
    "a", "r", "g", "u", "m", "e", "n", "t", ".">>

\* "world.create_zone() requires numeric dimensions (x, y, width, height)."
Msg_CreateZone ==
  <<"w", "o", "r", "l", "d", ".", "c", "r", "e", "a", "t", "e", "_", "z",
    "o", "n", "e", "(", ")", " ", "r", "e", "q", "u", "i", "r", "e", "s",
    " ", "n", "u", "m", "e", "r", "i", "c", " ", "d", "i", "m", "e", "n",
    "s", "i", "o", "n", "s", " ", "(", "x", ",", " ", "y", ",", " ", "w",
    "i", "d", "t", "h", ",", " ", "h", "e", "i", "g", "h", "t", ")", ".">>

\* "physics.set_gravity() requires a numeric strength."
Msg_SetGravity ==
  <<"p", "h", "y", "s", "i", "c", "s", ".", "s", "e", "t", "_", "g", "r",
    "a", "v", "i", "t", "y", "(", ")", " ", "r", "e", "q", "u", "i", "r",
    "e", "s", " ", "a", " ", "n", "u", "m", "e", "r", "i", "c", " ", "s",
    "t", "r", "e", "n", "g", "t", "h", ".">>

\* "sound.play() requires numeric 'x' and 'y' coordinates."
Msg_SoundPlay ==
  <<"s", "o", "u", "n", "d", ".", "p", "l", "a", "y", "(", ")", " ", "r",
    "e", "q", "u", "i", "r", "e", "s", " ", "n", "u", "m", "e", "r", "i",
    "c", " ", "'", "x", "'", " ", "a", "n", "d", " ", "'", "y", "'", " ",
    "c", "o", "o", "r", "d", "i", "n", "a", "t", "e", "s", ".">>

\* "neurons.create_network() requires a valid sprite variable."
Msg_NeuronsCreate ==
  <<"n", "e", "u", "r", "o", "n", "s", ".", "c", "r", "e", "a", "t", "e",
    "_", "n", "e", "t", "w", "o", "r", "k", "(", ")", " ", "r", "e", "q",
    "u", "i", "r", "e", "s", " ", "a", " ", "v", "a", "l", "i", "d", " ",
    "s", "p", "r", "i", "t", "e", " ", "v", "a", "r", "i", "a", "b", "l",
    "e", ".">>

\* "neurons.reward() requires a valid sprite variable."
Msg_NeuronsRewardSprite ==
  <<"n", "e", "u", "r", "o", "n", "s", ".", "r", "e", "w", "a", "r", "d",
    "(", ")", " ", "r", "e", "q", "u", "i", "r", "e", "s", " ", "a", " ",
    "v", "a", "l", "i", "d", " ", "s", "p", "r", "i", "t", "e", " ", "v",
    "a", "r", "i", "a", "b", "l", "e", ".">>

\* "neurons.reward() requires a numeric value."
Msg_NeuronsRewardValue ==
  <<"n", "e", "u", "r", "o", "n", "s", ".", "r", "e", "w", "a", "r", "d",
    "(", ")", " ", "r", "e", "q", "u", "i", "r", "e", "s", " ", "a", " ",
    "n", "u", "m", "e", "r", "i", "c", " ", "v", "a", "l", "u", "e", ".">>

\* "Invalid duration for ai.wait()."
Msg_WaitDuration ==
  <<"I", "n", "v", "a", "l", "i", "d", " ", "d", "u", "r", "a", "t", "i",
    "o", "n", " ", "f", "o", "r", " ", "a", "i", ".", "w", "a", "i", "t",
    "(", ")", ".">>

\* "ai.create_prop() requires numeric dimensions (x, y, width, height)."
Msg_CreateProp ==
  <<"a", "i", ".", "c", "r", "e", "a", "t", "e", "_", "p", "r", "o", "p",
    "(", ")", " ", "r", "e", "q", "u", "i", "r", "e", "s", " ", "n", "u",
    "m", "e", "r", "i", "c", " ", "d", "i", "m", "e", "n", "s", "i", "o",
    "n", "s", " ", "(", "x", ",", " ", "y", ",", " ", "w", "i", "d", "t",
    "h", ",", " ", "h", "e", "i", "g", "h", "t", ")", ".">>

\* "Class constructor UniversalSprite cannot be invoked without 'new'"
Msg_ClassConstructor ==
  <<"C", "l", "a", "s", "s", " ", "c", "o", "n", "s", "t", "r", "u", "c",
    "t", "o", "r", " ", "U", "n", "i", "v", "e", "r", "s", "a", "l", "S",
    "p", "r", "i", "t", "e", " ", "c", "a", "n", "n", "o", "t", " ", "b",
    "e", " ", "i", "n", "v", "o", "k", "e", "d", " ", "w", "i", "t", "h",
    "o", "u", "t", " ", "'", "n", "e", "w", "'">>

\* message.includes(lit)
Contains(msg, lit) ==
  \E p \in 1..Len(msg) : StartsWithAt(msg, p, lit)

(***************************************************************************)
(* Execution steps (ExecutionStep of src/game/types.ts) and the parse-time *)
(* sprite (class UniversalSprite).  A method returns the record            *)
(* [err, steps, sprite]; err is the thrown message, <<>> when none.        *)
(***************************************************************************)
Zero == Num(0)

Ok(steps, sprite) == [err |-> <<>>, steps |-> steps, sprite |-> sprite]

Throw(msg, steps, sprite) == [err |-> msg, steps |-> steps, sprite |-> sprite]

NoSprite == [id |-> "none"]

\* new UniversalSprite(args, steps) ; id is the character sequence that
\* nanoid(8) returns.  The object keeps, next to its string properties, their
\* characters (text), which string interpolation reads
UniversalSprite_constructor(args, steps, id) ==
  LET New(name, shape, x, y) ==
        Ok(Append(steps,
                  [type |-> "CREATE_SPRITE",
                   sprite |-> [id |-> Str(id), name |-> Str(name),
                               shape |-> Str(shape), x |-> x, y |-> y,
                               vx |-> Zero, vy |-> Zero, rotation |-> Zero],
                   duration |-> Zero]),
           [id |-> Str(id), name |-> Str(name), shape |-> Str(shape),
            x |-> x, y |-> y, vx |-> Zero, vy |-> Zero, rotation |-> Zero,
            text |-> [id |-> id, name |-> name, shape |-> shape]])
  IN  IF Arg(args, "name") = <<>> THEN Throw(Msg_RequiresName, steps, NoSprite)
      ELSE New(StripQuotes(Arg(args, "name")),
               OrElse(StripQuotes(Arg(args, "shape")), <<"c", "u", "b", "e">>),
               ParseInt(OrElse(Arg(args, "x"), <<"5", "0">>)),
               ParseInt(OrElse(Arg(args, "y"), <<"5", "0">>)))

\* say that puts the whole duration on the SAY step
say_withoutWait(this, args, steps) ==
  Ok(Append(steps, [type |-> "SAY", spriteId |-> this.id,
                    message |-> Str(StripQuotes(Arg(args, "message"))),
                    duration |-> Times1000(ParseFloat(
                      OrElse(Arg(args, "duration"), <<"2">>)))]), this)

say(this, args, steps) ==
  LET Emit(message, duration) ==
        IF IsNaN(duration) THEN Throw(Msg_SayDuration, steps, this)
        ELSE Ok(steps \o
                << [type |-> "SAY", spriteId |-> this.id, message |-> message,
                    duration |-> Zero],
                   [type |-> "WAIT", duration |-> duration],
                   [type |-> "CLEAR_MESSAGE", spriteId |-> this.id,
                    duration |-> Zero] >>, this)
  IN  Emit(Str(StripQuotes(Arg(args, "message"))),
           Times1000(ParseFloat(OrElse(Arg(args, "duration"), <<"2">>))))

chat(this, args, steps) ==
  LET message == Str(StripQuotes(Arg(args, "message")))
  IN  Ok(Append(steps, [type |-> "AI_CHAT_REQUEST", spriteId |-> this.id,
                        message |-> message, duration |-> Zero]), this)

\* a move_to that does not write the new position to the sprite
move_to_noUpdate(this, args, steps) ==
  LET Emit(newX, newY, speed) ==
        IF IsNaN(newX) \/ IsNaN(newY) THEN Throw(Msg_MoveToXY, steps, this)
        ELSE IF IsNaN(speed) THEN Throw(Msg_MoveToSpeed, steps, this)
        ELSE Ok(Append(steps, [type |-> "MOVE_TO", spriteId |-> this.id,
                               x |-> newX, y |-> newY, duration |-> speed]),
                this)
  IN  Emit(ParseInt(Arg(args, "x")), ParseInt(Arg(args, "y")),
           Times1000(ParseFloat(OrElse(Arg(args, "speed"), <<"1">>))))

move_to(this, args, steps) ==
  LET Emit(newX, newY, speed) ==
        IF IsNaN(newX) \/ IsNaN(newY) THEN Throw(Msg_MoveToXY, steps, this)
        ELSE IF IsNaN(speed) THEN Throw(Msg_MoveToSpeed, steps, this)
        ELSE Ok(Append(steps, [type |-> "MOVE_TO", spriteId |-> this.id,
                               x |-> newX, y |-> newY, duration |-> speed]),
                [this EXCEPT !.x = newX, !.y = newY])
  IN  Emit(ParseInt(Arg(args, "x")), ParseInt(Arg(args, "y")),
           Times1000(ParseFloat(OrElse(Arg(args, "speed"), <<"1">>))))

go_to(this, args, steps) ==
  LET Emit(newX, newY, speed) ==
        IF IsNaN(newX) \/ IsNaN(newY) THEN Throw(Msg_GoToXY, steps, this)
        ELSE IF IsNaN(speed) THEN Throw(Msg_GoToSpeed, steps, this)
        ELSE Ok(Append(steps, [type |-> "GO_TO", spriteId |-> this.id,
                               x |-> newX, y |-> newY, duration |-> speed]),
                [this EXCEPT !.x = newX, !.y = newY])
  IN  Emit(ParseInt(Arg(args, "x")), ParseInt(Arg(args, "y")),
           Times1000(ParseFloat(OrElse(Arg(args, "speed"), <<"2">>))))

\* a rotate_to whose step names no sprite
rotate_to_unbound(this, args, steps) ==
  LET Emit(angle, speed) ==
        IF IsNaN(angle) THEN Throw(Msg_RotateToAngle, steps, this)
        ELSE IF IsNaN(speed) THEN Throw(Msg_RotateToSpeed, steps, this)
        ELSE Ok(Append(steps, [type |-> "ROTATE_TO", spriteId |-> NoSprite.id,
                               angle |-> angle, duration |-> speed]),
                [this EXCEPT !.rotation = angle])
  IN  Emit(ParseInt(Arg(args, "angle")),
           Times1000(ParseFloat(OrElse(Arg(args, "speed"), <<"1">>))))

rotate_to(this, args, steps) ==
  LET Emit(angle, speed) ==
        IF IsNaN(angle) THEN Throw(Msg_RotateToAngle, steps, this)
        ELSE IF IsNaN(speed) THEN Throw(Msg_RotateToSpeed, steps, this)
        ELSE Ok(Append(steps, [type |-> "ROTATE_TO", spriteId |-> this.id,
                               angle |-> angle, duration |-> speed]),
                [this EXCEPT !.rotation = angle])
  IN  Emit(ParseInt(Arg(args, "angle")),
           Times1000(ParseFloat(OrElse(Arg(args, "speed"), <<"1">>))))

look_at(this, args, steps) ==
  LET Emit(targetX, targetY, speed) ==
        IF IsNaN(targetX) \/ IsNaN(targetY)
        THEN Throw(Msg_LookAtXY, steps, this)
        ELSE IF IsNaN(speed) THEN Throw(Msg_LookAtSpeed, steps, this)
        ELSE Ok(Append(steps, [type |-> "LOOK_AT", spriteId |-> this.id,
                               x |-> targetX, y |-> targetY,
                               duration |-> speed]), this)
  IN  Emit(ParseInt(Arg(args, "x")), ParseInt(Arg(args, "y")),
           Times1000(ParseFloat(OrElse(Arg(args, "speed"), <<"0", ".", "5">>))))

set_style(this, args, steps) ==
  LET Emit(speed, props) ==
        IF IsNaN(speed) THEN Throw(Msg_SetStyleSpeed, steps, this)
        ELSE Ok(steps \o
                [k \in 1..Len(props) |->
                   [type |-> "SET_STYLE", spriteId |-> this.id,
                    property |-> props[k].key,
                    value |-> Str(StripQuotes(props[k].val)),
                    duration |-> speed]], this)
  IN  Emit(Times1000(ParseFloat(OrElse(Arg(args, "speed"), <<"1">>))),
           SelectSeq(args, LAMBDA a : a.key # "speed"))

\* the methods the class declares
SpriteMethods ==
  {"say", "chat", "move_to", "go_to", "rotate_to", "look_at", "set_style"}

\* functions every object inherits from Object.prototype; calling them
\* with (sprite, args) emits nothing and throws nothing
InheritedMethods ==
  {"toString", "toLocaleString", "valueOf", "hasOwnProperty",
   "isPrototypeOf", "propertyIsEnumerable"}

\* method.call(sprite, args) for a property that is a function
CallMethod(methodName, this, args, steps) ==
  CASE methodName = "say" -> say(this, args, steps)
    [] methodName = "chat" -> chat(this, args, steps)
    [] methodName = "move_to" -> move_to(this, args, steps)
    [] methodName = "go_to" -> go_to(this, args, steps)
    [] methodName = "rotate_to" -> rotate_to(this, args, steps)
    [] methodName = "look_at" -> look_at(this, args, steps)
    [] methodName = "set_style" -> set_style(this, args, steps)
    [] methodName = "constructor" -> Throw(Msg_ClassConstructor, steps, this)
    [] OTHER -> Ok(steps, this)

\* typeof sprite[methodName] === 'function'
IsFunction(methodName) ==
  methodName \in SpriteMethods \cup InheritedMethods \cup {"constructor"}

(***************************************************************************)
(* libraryHandlers.  A handler returns [err, steps, sprite] like a method  *)
(* (the sprite field is not used).                                         *)
(***************************************************************************)
validLibraries == {"ai", "world", "physics", "sound", "neurons"}

world_set_background(args, steps) ==
  LET Emit(color) ==
        IF color = <<>> THEN Throw(Msg_SetBackground, steps, NoSprite)
        ELSE Ok(Append(steps, [type |-> "SET_BACKGROUND", color |-> Str(color),
                               duration |-> Zero]), NoSprite)
  IN  Emit(RemoveQuotes(Arg(args, "color")))

world_create_zone(args, steps, id) ==
  LET Emit(zone) ==
        IF IsNaN(zone.x) \/ IsNaN(zone.y) \/ IsNaN(zone.width)
             \/ IsNaN(zone.height)
        THEN Throw(Msg_CreateZone, steps, NoSprite)
        ELSE Ok(Append(steps, [type |-> "CREATE_ZONE", zone |-> zone,
                               duration |-> Zero]), NoSprite)
  IN  Emit([id     |-> Str(id),
            name   |-> Str(RemoveQuotes(OrElse(Arg(args, "name"),
                                               <<"z", "o", "n", "e">>))),
            x      |-> ParseInt(OrElse(Arg(args, "x"), <<"0">>)),
            y      |-> ParseInt(OrElse(Arg(args, "y"), <<"0">>)),
            width  |-> ParseInt(OrElse(Arg(args, "width"), <<"1", "0">>)),
            height |-> ParseInt(OrElse(Arg(args, "height"), <<"1", "0">>)),
            color  |-> Str(RemoveQuotes(OrElse(Arg(args, "color"),
                            <<"#", "f", "f", "f", "f", "f", "f">>)))])

physics_set_gravity(args, steps, rawArgs) ==
  LET Emit(strength) ==
        IF IsNaN(strength) THEN Throw(Msg_SetGravity, steps, NoSprite)
        ELSE Ok(Append(steps, [type |-> "SET_GRAVITY", strength |-> strength,
                               duration |-> Zero]), NoSprite)
  IN  Emit(ParseFloat(OrElse(Arg(args, "strength"), rawArgs)))

sound_play(args, steps) ==
  LET Emit(x, y) ==
        IF IsNaN(x) \/ IsNaN(y) THEN Throw(Msg_SoundPlay, steps, NoSprite)
        ELSE Ok(Append(steps, [type |-> "PLAY_SOUND", x |-> x, y |-> y,
                               duration |-> Zero]), NoSprite)
  IN  Emit(ParseInt(OrElse(Arg(args, "x"), <<"5", "0">>)),
           ParseInt(OrElse(Arg(args, "y"), <<"5", "0">>)))

\* variables.get(args.sprite) is defined
HasSprite(args, vars) ==
  Arg(args, "sprite") # <<>> /\ Str(Arg(args, "sprite")) \in DOMAIN vars

neurons_create_network(args, steps, vars) ==
  IF ~HasSprite(args, vars) THEN Throw(Msg_NeuronsCreate, steps, NoSprite)
  ELSE Ok(Append(steps, [type |-> "CREATE_NETWORK",
                         spriteId |-> vars[Str(Arg(args, "sprite"))].id,
                         duration |-> Zero]), NoSprite)

neurons_reward(args, steps, vars) ==
  LET Emit(value) ==
        IF ~HasSprite(args, vars)
        THEN Throw(Msg_NeuronsRewardSprite, steps, NoSprite)
        ELSE IF IsNaN(value) THEN Throw(Msg_NeuronsRewardValue, steps, NoSprite)
        ELSE Ok(Append(steps, [type |-> "REWARD_SPRITE",
                               spriteId |-> vars[Str(Arg(args, "sprite"))].id,
                               value |-> value, duration |-> Zero]), NoSprite)
  IN  Emit(ParseFloat(OrElse(Arg(args, "value"), <<"1">>)))

ai_wait(args, steps, rawArgs) ==
  LET Emit(duration) ==
        IF IsNaN(duration) THEN Throw(Msg_WaitDuration, steps, NoSprite)
        ELSE Ok(Append(steps, [type |-> "WAIT", duration |-> duration]),
                NoSprite)
  IN  Emit(Times1000(ParseFloat(rawArgs)))

ai_create_prop(args, steps, id) ==
  LET Emit(prop) ==
        IF IsNaN(prop.x) \/ IsNaN(prop.y) \/ IsNaN(prop.width)
             \/ IsNaN(prop.height)
        THEN Throw(Msg_CreateProp, steps, NoSprite)
        ELSE Ok(Append(steps, [type |-> "CREATE_PROP", prop |-> prop,
                               duration |-> Zero]), NoSprite)
  IN  Emit([id     |-> Str(id),
            shape  |-> Str(OrElse(StripQuotes(Arg(args, "shape")),
                                  <<"w", "a", "l", "l">>)),
            x      |-> ParseInt(OrElse(Arg(args, "x"), <<"5", "0">>)),
            y      |-> ParseInt(OrElse(Arg(args, "y"), <<"5", "0">>)),
            width  |-> ParseInt(OrElse(Arg(args, "width"), <<"1", "0">>)),
            height |-> ParseInt(OrElse(Arg(args, "height"), <<"1", "0">>)),
            color  |-> Str(RemoveQuotes(Arg(args, "color")))])

\* the handler table: libraryHandlers[libName]?.[methodName] is defined
HasHandler(libName, methodName) ==
  \/ libName = "world" /\ methodName \in {"set_background", "create_zone"}
  \/ libName = "physics" /\ methodName = "set_gravity"
  \/ libName = "sound" /\ methodName = "play"
  \/ libName = "neurons" /\ methodName \in {"create_network", "reward"}
  \/ libName = "ai" /\ methodName \in {"wait", "create_prop"}

\* the dispatch of the library call branch
CallHandler(libName, methodName, args, rawArgs, steps, vars, id) ==
  CASE libName = "world" /\ methodName = "set_background" ->
         world_set_background(args, steps)
    [] libName = "world" /\ methodName = "create_zone" ->
         world_create_zone(args, steps, id)
    [] libName = "physics" -> physics_set_gravity(args, steps, rawArgs)
    [] libName = "sound" -> sound_play(args, steps)
    [] libName = "neurons" /\ methodName = "create_network" ->
         neurons_create_network(args, steps, vars)
    [] libName = "neurons" /\ methodName = "reward" ->
         neurons_reward(args, steps, vars)
    [] libName = "ai" /\ methodName = "wait" -> ai_wait(args, steps, rawArgs)
    [] libName = "ai" /\ methodName = "create_prop" ->
         ai_create_prop(args, steps, id)

\* the handlers that call nanoid
HandlerUsesId(libName, methodName) ==
  \/ libName = "world" /\ methodName = "create_zone"
  \/ libName = "ai" /\ methodName = "create_prop"

(***************************************************************************)
(* The print branch: string interpolation and quote stripping.             *)
(***************************************************************************)
RECURSIVE NatToChars(_)
NatToChars(n) ==
  LET d == <<"0", "1", "2", "3", "4", "5", "6", "7", "8", "9">>[(n % 10) + 1]
  IN  IF n < 10 THEN <<d>> ELSE NatToChars(n \div 10) \o <<d>>

RECURSIVE PadZero(_, _)
PadZero(cs, width) == IF Len(cs) >= width THEN cs ELSE PadZero(<<"0">> \o cs, width)

\* String(v) for a number
NumToChars(v) ==
  LET a == IF v.m < 0 THEN 0 - v.m ELSE v.m
      sign == IF v.m < 0 THEN <<"-">> ELSE <<>>
  IN  IF IsNaN(v) THEN <<"N", "a", "N">>
      ELSE IF v.e = 0 THEN sign \o NatToChars(a)
      ELSE sign \o NatToChars(a \div Pow10(v.e)) \o <<".">>
                \o PadZero(NatToChars(a % Pow10(v.e)), v.e)

Chars_objectObject ==
  <<"[", "o", "b", "j", "e", "c", "t", " ", "O", "b", "j", "e", "c", "t", "]">>

Chars_function == <<"f", "u", "n", "c", "t", "i", "o", "n", " ">>

RECURSIVE JoinObjects(_)
\* String(array of n objects)
JoinObjects(n) ==
  IF n = 0 THEN <<>>
  ELSE IF n = 1 THEN Chars_objectObject
  ELSE Chars_objectObject \o <<",">> \o JoinObjects(n - 1)

\* sprite[prop] !== undefined
HasProperty(prop) ==
  \/ prop \in {"id", "name", "shape", "x", "y", "vx", "vy", "rotation",
               "data", "steps"}
  \/ IsFunction(prop)

\* String(sprite[prop]); the source text of a function is abridged to
\* "function <name>"
PropertyChars(this, prop, propChars, steps) ==
  CASE prop = "id" -> this.text.id
    [] prop = "name" -> this.text.name
    [] prop = "shape" -> this.text.shape
    [] prop = "x" -> NumToChars(this.x)
    [] prop = "y" -> NumToChars(this.y)
    [] prop = "vx" -> NumToChars(this.vx)
    [] prop = "vy" -> NumToChars(this.vy)
    [] prop = "rotation" -> NumToChars(this.rotation)
    [] prop = "data" -> Chars_objectObject
    [] prop = "steps" -> JoinObjects(Len(steps))
    [] OTHER -> Chars_function \o propChars

\* the replace callback of the print branch; js tells which alternative
\* matched, raw is the text between the braces
Substitute(js, raw, vars, steps) ==
  LET expression == Trim(raw)
      parts      == SplitAt(expression, ".")
      varName    == Str(parts[1])
      prop       == IF Len(parts) >= 2 THEN parts[2] ELSE <<>>
      original   == (IF js THEN <<"$", "{">> ELSE <<"{">>) \o expression \o <<"}">>
  IN  IF expression = <<>> THEN <<>>
      ELSE IF varName \notin DOMAIN vars \/ prop = <<>> THEN original
      ELSE IF HasProperty(Str(prop))
           THEN PropertyChars(vars[varName], Str(prop), prop, steps)
      ELSE original

\* position of the first "}" at or after p, 0 when none
CloseBrace(s, p) ==
  LET P == {q \in p..Len(s) : s[q] = "}"}
  IN  IF P = {} THEN 0 ELSE CHOOSE q \in P : \A r \in P : q <= r

RECURSIVE Interpolate(_, _, _, _)
\* message.replace(/\$\{([^}]+)\}|\{([^}]+)\}/g, callback) from position p
Interpolate(s, p, vars, steps) ==
  IF p > Len(s) THEN <<>>
  ELSE LET js    == StartsWithAt(s, p, <<"$", "{">>)
           open  == IF js THEN p + 1 ELSE p
           close == IF s[open] = "{" /\ open + 1 <= Len(s) /\ s[open + 1] # "}"
                    THEN CloseBrace(s, open + 1) ELSE 0
       IN  IF close > 0
           THEN Substitute(js, Slice(s, open + 1, close - 1), vars, steps)
                  \o Interpolate(s, close + 1, vars, steps)
           ELSE <<s[p]>> \o Interpolate(s, p + 1, vars, steps)

\* the backquote character (it cannot be written in a TLA+ string)
Backquote == "<backquote>"

\* message.replace(/^f?(["'BQ])([\s\S]*?)\1$/, '$2'), BQ the backquote
StripPrintQuotes(m) ==
  LET Q == Quote \cup {Backquote}
      a == IF Len(m) >= 2 /\ m[1] = "f" /\ m[2] \in Q THEN 2
           ELSE IF Len(m) >= 1 /\ m[1] \in Q THEN 1 ELSE 0
  IN  IF a > 0 /\ Len(m) > a /\ m[Len(m)] = m[a]
      THEN Slice(m, a + 1, Len(m) - 1) ELSE m

(***************************************************************************)
(* Scripts.  A script is a sequence of lines of the vocabulary below       *)
(* (code.split('\n')), referred to by their position in Lines.             *)
(***************************************************************************)
\* import ai
L_import_ai ==
  <<"i", "m", "p", "o", "r", "t", " ", "a", "i">>

\* import ai, world
L_import_ai_world ==
  <<"i", "m", "p", "o", "r", "t", " ", "a", "i", ",", " ", "w", "o", "r",
    "l", "d">>

\* import physics, sound, neurons;
L_import_rest ==
  <<"i", "m", "p", "o", "r", "t", " ", "p", "h", "y", "s", "i", "c", "s",
    ",", " ", "s", "o", "u", "n", "d", ",", " ", "n", "e", "u", "r", "o",
    "n", "s", ";">>

\* import math
L_import_math ==
  <<"i", "m", "p", "o", "r", "t", " ", "m", "a", "t", "h">>

\* (an empty line)
L_blank ==
  <<>>

\*   # set the scene
L_comment ==
  <<" ", " ", "#", " ", "s", "e", "t", " ", "t", "h", "e", " ", "s", "c",
    "e", "n", "e">>

\* bot = ai.Sprite(name: "B1", x: 10, y: 10)
L_bot ==
  <<"b", "o", "t", " ", "=", " ", "a", "i", ".", "S", "p", "r", "i", "t",
    "e", "(", "n", "a", "m", "e", ":", " ", "\"", "B", "1", "\"", ",", " ",
    "x", ":", " ", "1", "0", ",", " ", "y", ":", " ", "1", "0", ")">>

\* foe = ai.Sprite(name='B1', shape="skull")
L_foe ==
  <<"f", "o", "e", " ", "=", " ", "a", "i", ".", "S", "p", "r", "i", "t",
    "e", "(", "n", "a", "m", "e", "=", "'", "B", "1", "'", ",", " ", "s",
    "h", "a", "p", "e", "=", "\"", "s", "k", "u", "l", "l", "\"", ")">>

\* bot = ai.Sprite(name="B2")
L_bot2 ==
  <<"b", "o", "t", " ", "=", " ", "a", "i", ".", "S", "p", "r", "i", "t",
    "e", "(", "n", "a", "m", "e", "=", "\"", "B", "2", "\"", ")">>

\* foe = ai.Sprite(x=5)
L_noname ==
  <<"f", "o", "e", " ", "=", " ", "a", "i", ".", "S", "p", "r", "i", "t",
    "e", "(", "x", "=", "5", ")">>

\* bot.say(message: "hi", duration: 1)
L_say1 ==
  <<"b", "o", "t", ".", "s", "a", "y", "(", "m", "e", "s", "s", "a", "g",
    "e", ":", " ", "\"", "h", "i", "\"", ",", " ", "d", "u", "r", "a", "t",
    "i", "o", "n", ":", " ", "1", ")">>

\* bot.say(message: "hi")
L_say ==
  <<"b", "o", "t", ".", "s", "a", "y", "(", "m", "e", "s", "s", "a", "g",
    "e", ":", " ", "\"", "h", "i", "\"", ")">>

\* bot.go_to(x=80, y=25, speed=2.5)
L_goto25 ==
  <<"b", "o", "t", ".", "g", "o", "_", "t", "o", "(", "x", "=", "8", "0",
    ",", " ", "y", "=", "2", "5", ",", " ", "s", "p", "e", "e", "d", "=",
    "2", ".", "5", ")">>

\* bot.go_to(x=80, y=25)
L_goto ==
  <<"b", "o", "t", ".", "g", "o", "_", "t", "o", "(", "x", "=", "8", "0",
    ",", " ", "y", "=", "2", "5", ")">>

\* bot:move_to(x=5, y=-5, speed=0)
L_move0 ==
  <<"b", "o", "t", ":", "m", "o", "v", "e", "_", "t", "o", "(", "x", "=",
    "5", ",", " ", "y", "=", "-", "5", ",", " ", "s", "p", "e", "e", "d",
    "=", "0", ")">>

\* bot.move_to(x=80, y=25)
L_move ==
  <<"b", "o", "t", ".", "m", "o", "v", "e", "_", "t", "o", "(", "x", "=",
    "8", "0", ",", " ", "y", "=", "2", "5", ")">>

\* foe.rotate_to(angle=90, speed=.5)
L_rot05 ==
  <<"f", "o", "e", ".", "r", "o", "t", "a", "t", "e", "_", "t", "o", "(",
    "a", "n", "g", "l", "e", "=", "9", "0", ",", " ", "s", "p", "e", "e",
    "d", "=", ".", "5", ")">>

\* foe.rotate_to(angle=90)
L_rot ==
  <<"f", "o", "e", ".", "r", "o", "t", "a", "t", "e", "_", "t", "o", "(",
    "a", "n", "g", "l", "e", "=", "9", "0", ")">>

\* bot.look_at(x=50, y=50, speed=0.25)
L_look025 ==
  <<"b", "o", "t", ".", "l", "o", "o", "k", "_", "a", "t", "(", "x", "=",
    "5", "0", ",", " ", "y", "=", "5", "0", ",", " ", "s", "p", "e", "e",
    "d", "=", "0", ".", "2", "5", ")">>

\* bot.look_at(x=50, y=50)
L_look ==
  <<"b", "o", "t", ".", "l", "o", "o", "k", "_", "a", "t", "(", "x", "=",
    "5", "0", ",", " ", "y", "=", "5", "0", ")">>

\* bot.set_style(color="red", speed=3)
L_style3 ==
  <<"b", "o", "t", ".", "s", "e", "t", "_", "s", "t", "y", "l", "e", "(",
    "c", "o", "l", "o", "r", "=", "\"", "r", "e", "d", "\"", ",", " ", "s",
    "p", "e", "e", "d", "=", "3", ")">>

\* ai.wait(1.5)  # pause
L_wait15 ==
  <<"a", "i", ".", "w", "a", "i", "t", "(", "1", ".", "5", ")", " ", " ",
    "#", " ", "p", "a", "u", "s", "e">>

\* ai.wait(seconds=2)
L_waitkw ==
  <<"a", "i", ".", "w", "a", "i", "t", "(", "s", "e", "c", "o", "n", "d",
    "s", "=", "2", ")">>

\* world.set_background(color="red")
L_background ==
  <<"w", "o", "r", "l", "d", ".", "s", "e", "t", "_", "b", "a", "c", "k",
    "g", "r", "o", "u", "n", "d", "(", "c", "o", "l", "o", "r", "=", "\"",
    "r", "e", "d", "\"", ")">>

\* world.set_background(color="#0f172a")
L_hexbackground ==
  <<"w", "o", "r", "l", "d", ".", "s", "e", "t", "_", "b", "a", "c", "k",
    "g", "r", "o", "u", "n", "d", "(", "c", "o", "l", "o", "r", "=", "\"",
    "#", "0", "f", "1", "7", "2", "a", "\"", ")">>

\* physics.set_gravity(0.5)
L_gravity ==
  <<"p", "h", "y", "s", "i", "c", "s", ".", "s", "e", "t", "_", "g", "r",
    "a", "v", "i", "t", "y", "(", "0", ".", "5", ")">>

\* sound.play(x=10, y=20)
L_sound ==
  <<"s", "o", "u", "n", "d", ".", "p", "l", "a", "y", "(", "x", "=", "1",
    "0", ",", " ", "y", "=", "2", "0", ")">>

\* neurons.reward(sprite=bot, value=1)
L_reward ==
  <<"n", "e", "u", "r", "o", "n", "s", ".", "r", "e", "w", "a", "r", "d",
    "(", "s", "p", "r", "i", "t", "e", "=", "b", "o", "t", ",", " ", "v",
    "a", "l", "u", "e", "=", "1", ")">>

\* print("hi")
L_print ==
  <<"p", "r", "i", "n", "t", "(", "\"", "h", "i", "\"", ")">>

\* bot.jump()
L_jump ==
  <<"b", "o", "t", ".", "j", "u", "m", "p", "(", ")">>

\* bot.go_to(x=target.x, y=25)
L_gototarget ==
  <<"b", "o", "t", ".", "g", "o", "_", "t", "o", "(", "x", "=", "t", "a",
    "r", "g", "e", "t", ".", "x", ",", " ", "y", "=", "2", "5", ")">>

\* hello world
L_garbage ==
  <<"h", "e", "l", "l", "o", " ", "w", "o", "r", "l", "d">>

\* the lines a script is written with
Vocabulary ==
  <<L_import_ai, L_import_ai_world, L_import_rest, L_import_math,
    L_blank, L_comment, L_bot, L_foe, L_bot2, L_noname, L_say1, L_say,
    L_goto25, L_goto, L_move0, L_move, L_rot05, L_rot, L_look025, L_look,
    L_style3, L_wait15, L_waitkw, L_background, L_gravity, L_sound,
    L_reward, L_print, L_jump, L_gototarget, L_garbage, L_hexbackground>>

\* import ai, neurons
L_import_ai_neurons ==
  <<"i", "m", "p", "o", "r", "t", " ", "a", "i", ",", " ", "n", "e", "u",
    "r", "o", "n", "s">>

\* target = ai.Sprite(name="Beacon", shape="cube", x=80, y=85)
L_target ==
  <<"t", "a", "r", "g", "e", "t", " ", "=", " ", "a", "i", ".", "S", "p",
    "r", "i", "t", "e", "(", "n", "a", "m", "e", "=", "\"", "B", "e", "a",
    "c", "o", "n", "\"", ",", " ", "s", "h", "a", "p", "e", "=", "\"", "c",
    "u", "b", "e", "\"", ",", " ", "x", "=", "8", "0", ",", " ", "y", "=",
    "8", "5", ")">>

\* bot.go_to(x=30, y=40)
L_goto3 ==
  <<"b", "o", "t", ".", "g", "o", "_", "t", "o", "(", "x", "=", "3", "0",
    ",", " ", "y", "=", "4", "0", ")">>

\* bot.rotate_to(angle=90)
L_botrot ==
  <<"b", "o", "t", ".", "r", "o", "t", "a", "t", "e", "_", "t", "o", "(",
    "a", "n", "g", "l", "e", "=", "9", "0", ")">>

\* bot.go_to(x=target.x, y=target.y)
L_gotodotted ==
  <<"b", "o", "t", ".", "g", "o", "_", "t", "o", "(", "x", "=", "t", "a",
    "r", "g", "e", "t", ".", "x", ",", " ", "y", "=", "t", "a", "r", "g",
    "e", "t", ".", "y", ")">>

\* bot.look_at(x=target.x, y=target.y, speed=0.5)
L_lookdotted ==
  <<"b", "o", "t", ".", "l", "o", "o", "k", "_", "a", "t", "(", "x", "=",
    "t", "a", "r", "g", "e", "t", ".", "x", ",", " ", "y", "=", "t", "a",
    "r", "g", "e", "t", ".", "y", ",", " ", "s", "p", "e", "e", "d", "=",
    "0", ".", "5", ")">>

\* neurons.create_network(sprite=bot)
L_network ==
  <<"n", "e", "u", "r", "o", "n", "s", ".", "c", "r", "e", "a", "t", "e",
    "_", "n", "e", "t", "w", "o", "r", "k", "(", "s", "p", "r", "i", "t",
    "e", "=", "b", "o", "t", ")">>

\* neurons.reward(sprite=bot)
L_rewardbare ==
  <<"n", "e", "u", "r", "o", "n", "s", ".", "r", "e", "w", "a", "r", "d",
    "(", "s", "p", "r", "i", "t", "e", "=", "b", "o", "t", ")">>

\* bot.create_network()
L_botnetwork ==
  <<"b", "o", "t", ".", "c", "r", "e", "a", "t", "e", "_", "n", "e", "t",
    "w", "o", "r", "k", "(", ")">>

\* bot.reward(value=1)
L_botreward ==
  <<"b", "o", "t", ".", "r", "e", "w", "a", "r", "d", "(", "v", "a", "l",
    "u", "e", "=", "1", ")">>

\* bot.reward()
L_botrewardbare ==
  <<"b", "o", "t", ".", "r", "e", "w", "a", "r", "d", "(", ")">>

\* print(f"{bot.x} {bot.y} {bot.rotation}")
L_printpos ==
  <<"p", "r", "i", "n", "t", "(", "f", "\"", "{", "b", "o", "t", ".", "x",
    "}", " ", "{", "b", "o", "t", ".", "y", "}", " ", "{", "b", "o", "t",
    ".", "r", "o", "t", "a", "t", "i", "o", "n", "}", "\"", ")">>

\* console.log("${bot.x} ${bot.y} ${bot.rotation}")
L_printposjs ==
  <<"c", "o", "n", "s", "o", "l", "e", ".", "l", "o", "g", "(", "\"", "$",
    "{", "b", "o", "t", ".", "x", "}", " ", "$", "{", "b", "o", "t", ".",
    "y", "}", " ", "$", "{", "b", "o", "t", ".", "r", "o", "t", "a", "t",
    "i", "o", "n", "}", "\"", ")">>

\* print("at {foe.x}")
L_printunbound ==
  <<"p", "r", "i", "n", "t", "(", "\"", "a", "t", " ", "{", "f", "o", "e",
    ".", "x", "}", "\"", ")">>

\* print("at {bot}")
L_printnoprop ==
  <<"p", "r", "i", "n", "t", "(", "\"", "a", "t", " ", "{", "b", "o", "t",
    "}", "\"", ")">>

\* print("at ${bot.z}")
L_printabsent ==
  <<"p", "r", "i", "n", "t", "(", "\"", "a", "t", " ", "$", "{", "b", "o",
    "t", ".", "z", "}", "\"", ")">>

\* print("at {}")
L_printempty ==
  <<"p", "r", "i", "n", "t", "(", "\"", "a", "t", " ", "{", "}", "\"", ")">>

\* print("at { foe.x }")
L_printpadded ==
  <<"p", "r", "i", "n", "t", "(", "\"", "a", "t", " ", "{", " ", "f", "o",
    "e", ".", "x", " ", "}", "\"", ")">>

\* print("at { }")
L_printspace ==
  <<"p", "r", "i", "n", "t", "(", "\"", "a", "t", " ", "{", " ", "}", "\"",
    ")">>

\* the lines of the scripts that are parsed whole
ScriptLines ==
  <<L_import_ai_neurons, L_target, L_goto3, L_botrot, L_gotodotted,
    L_lookdotted, L_network, L_rewardbare, L_botnetwork, L_botreward,
    L_botrewardbare, L_printpos, L_printposjs, L_printunbound,
    L_printnoprop, L_printabsent, L_printempty, L_printpadded,
    L_printspace>>

\* foe = ai.Sprite(name="F1", x=90)
L_foe2 ==
  <<"f", "o", "e", " ", "=", " ", "a", "i", ".", "S", "p", "r", "i", "t", "e", "(", "n", "a", "m", "e", "=", "\"", "F", "1", "\"", ",", " ", "x", "=", "9", "0", ")">>

\* bot.chat(message="hello")
L_chat ==
  <<"b", "o", "t", ".", "c", "h", "a", "t", "(", "m", "e", "s", "s", "a", "g", "e", "=", "\"", "h", "e", "l", "l", "o", "\"", ")">>

\* world.create_zone(name="lava", x=10, y=20, width=30, height=5, color="red")
L_zone ==
  <<"w", "o", "r", "l", "d", ".", "c", "r", "e", "a", "t", "e", "_", "z", "o", "n", "e", "(", "n", "a", "m", "e", "=", "\"", "l", "a", "v", "a", "\"", ",", " ", "x", "=", "1", "0", ",", " ", "y", "=", "2", "0", ",", " ", "w", "i", "d", "t", "h", "=", "3", "0", ",", " ", "h", "e", "i", "g", "h", "t", "=", "5", ",", " ", "c", "o", "l", "o", "r", "=", "\"", "r", "e", "d", "\"", ")">>

\* ai.create_prop(shape="rock", x=70, y=60)
L_prop ==
  <<"a", "i", ".", "c", "r", "e", "a", "t", "e", "_", "p", "r", "o", "p", "(", "s", "h", "a", "p", "e", "=", "\"", "r", "o", "c", "k", "\"", ",", " ", "x", "=", "7", "0", ",", " ", "y", "=", "6", "0", ")">>

\* bot.say(message="hi", duration=-1)
L_saynegative ==
  <<"b", "o", "t", ".", "s", "a", "y", "(", "m", "e", "s", "s", "a", "g", "e", "=", "\"", "h", "i", "\"", ",", " ", "d", "u", "r", "a", "t", "i", "o", "n", "=", "-", "1", ")">>

\* ai.wait(-1)
L_waitnegative ==
  <<"a", "i", ".", "w", "a", "i", "t", "(", "-", "1", ")">>

\* bot.move_to(x=80, y=25, speed=-2)
L_movenegative ==
  <<"b", "o", "t", ".", "m", "o", "v", "e", "_", "t", "o", "(", "x", "=", "8", "0", ",", " ", "y", "=", "2", "5", ",", " ", "s", "p", "e", "e", "d", "=", "-", "2", ")">>

\* bot.set_style(color="red", speed=-1)
L_stylenegative ==
  <<"b", "o", "t", ".", "s", "e", "t", "_", "s", "t", "y", "l", "e", "(", "c", "o", "l", "o", "r", "=", "\"", "r", "e", "d", "\"", ",", " ", "s", "p", "e", "e", "d", "=", "-", "1", ")">>

\* foe.say(message="yo")
L_foesay ==
  <<"f", "o", "e", ".", "s", "a", "y", "(", "m", "e", "s", "s", "a", "g", "e", "=", "\"", "y", "o", "\"", ")">>

\* foe.go_to(x=1, y=2)
L_foegoto ==
  <<"f", "o", "e", ".", "g", "o", "_", "t", "o", "(", "x", "=", "1", ",", " ", "y", "=", "2", ")">>

\* foe.create_network()
L_foenetwork ==
  <<"f", "o", "e", ".", "c", "r", "e", "a", "t", "e", "_", "n", "e", "t", "w", "o", "r", "k", "(", ")">>

\* foe.reward(value=3)
L_foereward ==
  <<"f", "o", "e", ".", "r", "e", "w", "a", "r", "d", "(", "v", "a", "l", "u", "e", "=", "3", ")">>

\* the calls of the commands the lists above do not hold, timed commands
\* with negative seconds, and calls on foe
MoreLines ==
  <<L_foe2, L_chat, L_zone, L_prop, L_saynegative, L_waitnegative,
    L_movenegative, L_stylenegative, L_foesay, L_foegoto, L_foenetwork,
    L_foereward>>

\* the lines as they are written
Written == Vocabulary \o ScriptLines \o MoreLines

\* ':' for '=' and '=' for ':' in the text s from position p on, outside
\* quoted strings
RECURSIVE FlipFrom(_, _, _)
FlipFrom(s, p, quoted) ==
  IF p > Len(s) THEN <<>>
  ELSE IF quoted
  THEN IF s[p] = "\\" /\ p < Len(s)
       THEN <<s[p], s[p + 1]>> \o FlipFrom(s, p + 2, TRUE)
       ELSE <<s[p]>> \o FlipFrom(s, p + 1, s[p] \notin Quote)
  ELSE <<IF s[p] = "=" THEN ":" ELSE IF s[p] = ":" THEN "=" ELSE s[p]>>
         \o FlipFrom(s, p + 1, s[p] \in Quote)

\* a line in the other spelling: in a library or sprite method call the
\* separator between target and method is ':' for '.' and '.' for ':', and
\* in the argument list of a call or a construction the keyword arguments
\* are written name: value for name=value and name=value for name: value.
\* Import and print lines have one spelling
OtherSpelling(line) ==
  LET w    == RunEnd(line, 1, WordChar)
      open == IF \E p \in 1..Len(line) : line[p] = "("
              THEN CHOOSE p \in 1..Len(line) :
                     /\ line[p] = "("
                     /\ \A q \in 1..(p - 1) : line[q] # "("
              ELSE 0
      call == /\ w >= 1 /\ w < Len(line) /\ line[w + 1] \in {".", ":"}
              /\ libCallMatch(StripComment(line)).ok
      head == IF call
              THEN Slice(line, 1, w)
                     \o <<IF line[w + 1] = "." THEN ":" ELSE ".">>
                     \o Slice(line, w + 2, open)
              ELSE Slice(line, 1, open)
  IN  IF open = 0 \/ printMatch(StripComment(line)).ok THEN line
      ELSE head \o FlipFrom(line, open + 1, FALSE)

\* every written line in the other spelling
Respelt == [k \in 1..Len(Written) |-> OtherSpelling(Written[k])]

\* the position of the other spelling of the written line at position k
Twin(k) == Len(Written) + k

\* every line a script can hold; a script refers to a line by its position
Lines == Written \o Respelt

\* the longest script
MaxLines == 3

\* the number of distinct values nanoid returns
MaxIds == 3

\* nanoid(8): the identifiers it can return
Ids == {<<"k", NatToChars(n)[1]>> : n \in 1..MaxIds}

\* what the expressions at the head of the loop body compute from the line
\* alone: the stripped line, the matches and the parsed arguments
Analyze(line) ==
  LET Libs(parts) == [k \in 1..Len(parts) |-> Trim(parts[k])]
      Rec(t, imp, cre, prt, call) ==
        [trimmedLine   |-> t,
         importMatch   |-> imp.ok,
         libs          |-> IF imp.ok THEN Libs(SplitAt(imp.g1, ","))
                           ELSE <<>>,
         creationMatch |-> cre.ok,
         varName       |-> cre.g1,
         creationArgs  |-> parseArgs(cre.g2),
         printMatch    |-> prt.ok,
         message       |-> prt.g1,
         libCallMatch  |-> call.ok,
         libName       |-> call.g1,
         methodName    |-> call.g2,
         argsString    |-> call.g3,
         args          |-> parseArgs(call.g3)]
      From(t) == Rec(t, importMatch(t), creationMatch(t), printMatch(t),
                     libCallMatch(t))
  IN  From(StripComment(line))

\* the analysis of every line of the vocabulary
Analysis == [k \in 1..Len(Lines) |-> Analyze(Lines[k])] @@ <<>>

(***************************************************************************)
(* parseUniversalCode: the body of the loop over the lines.                *)
(* The parser state st is [steps, variables, spriteNames,                  *)
(* importedLibraries]; the outcome adds err, the message of the error      *)
(* thrown (<<>> when the line was accepted).                               *)
(***************************************************************************)
Accept(st) ==
  [err |-> <<>>, steps |-> st.steps, variables |-> st.variables,
   spriteNames |-> st.spriteNames, importedLibraries |-> st.importedLibraries]

Reject(msg, st) == [Accept(st) EXCEPT !.err = msg]

Msg_NotImported(lib) ==
  Msg_NotImported_1 \o lib \o Msg_NotImported_2 \o lib \o Msg_NotImported_3

\* no library is ever found missing
NotImported_never(libName, imported) == FALSE

\* validLibraries.has(libName) && !importedLibraries.has(libName)
NotImported(libName, imported) ==
  libName \in validLibraries /\ libName \notin imported

\* the import branch
ImportBranch(an, st) ==
  LET bad == {k \in 1..Len(an.libs) : Str(an.libs[k]) \notin validLibraries}
      first == CHOOSE k \in bad : \A j \in bad : k <= j
  IN  IF bad # {}
      THEN Reject(Msg_UnknownLibrary_1 \o an.libs[first] \o Msg_UnknownLibrary_2, st)
      ELSE Accept([st EXCEPT !.importedLibraries =
                     @ \cup {Str(an.libs[k]) : k \in 1..Len(an.libs)}])

\* no identifier is ever found bound
Bound_never(vars, name) == FALSE

\* variables.has(name)
Bound(vars, name) == name \in DOMAIN vars

\* variables.set(name, sprite)
MapSet(vars, name, sprite) ==
  [v \in DOMAIN vars \cup {name} |-> IF v = name THEN sprite ELSE vars[v]]

\* the sprite creation branch
CreationBranch(an, st, id) ==
  LET Bind(varName, made) ==
        IF made.err # <<>> THEN Reject(made.err, st)
        ELSE IF Bound(st.variables, varName)
        THEN Reject(Msg_VariableDefined_1 \o an.varName
                      \o Msg_VariableDefined_2, st)
        ELSE IF made.sprite.name \in st.spriteNames
        THEN Reject(Msg_SpriteExists_1 \o made.sprite.text.name
                      \o Msg_SpriteExists_2, st)
        ELSE Accept([st EXCEPT !.steps = made.steps,
                               !.variables = MapSet(@, varName, made.sprite),
                               !.spriteNames = @ \cup {made.sprite.name}])
  IN  IF NotImported("ai", st.importedLibraries)
      THEN Reject(Msg_NotImported(<<"a", "i">>), st)
      ELSE Bind(Str(an.varName),
                UniversalSprite_constructor(an.creationArgs, st.steps, id))

\* the print branch
PrintBranch(an, st) ==
  Accept([st EXCEPT !.steps =
            Append(@, [type |-> "LOG",
                       message |-> Str(StripPrintQuotes(
                         Interpolate(an.message, 1, st.variables, st.steps))),
                       duration |-> Zero])])

\* the sprite method call branch and the final throw
SpriteCallBranch(an, st) ==
  LET Finish(objName, called) ==
        IF called.err # <<>> THEN Reject(called.err, st)
        ELSE Accept([st EXCEPT !.steps = called.steps,
                               !.variables[objName] = called.sprite])
      Call(objName, methodName) ==
        IF ~IsFunction(methodName)
        THEN Reject(Msg_NoMethod_1 \o an.libName \o Msg_NoMethod_2
                      \o an.methodName \o Msg_NoMethod_3, st)
        ELSE Finish(objName, CallMethod(methodName, st.variables[objName],
                                        an.args, st.steps))
  IN  IF ~an.libCallMatch \/ ~Bound(st.variables, Str(an.libName))
      THEN Reject(Msg_InvalidSyntax, st)
      ELSE Call(Str(an.libName), Str(an.methodName))

\* the library call branch; a line it does not settle goes on to the sprite
\* call branch
LibraryCallBranch(an, st, id) ==
  LET Finish(called) ==
        IF called.err # <<>> THEN Reject(called.err, st)
        ELSE Accept([st EXCEPT !.steps = called.steps])
      Settled(libName, methodName) ==
        /\ an.libCallMatch
        /\ NotImported(libName, st.importedLibraries)
             \/ HasHandler(libName, methodName)
      Dispatch(libName, methodName) ==
        IF NotImported(libName, st.importedLibraries)
        THEN Reject(Msg_NotImported(an.libName), st)
        ELSE Finish(CallHandler(libName, methodName, an.args, an.argsString,
                                st.steps, st.variables, id))
  IN  IF Settled(Str(an.libName), Str(an.methodName))
      THEN Dispatch(Str(an.libName), Str(an.methodName))
      ELSE SpriteCallBranch(an, st)

\* one iteration of the loop on a line that is not empty
ProcessLine(an, st, id) ==
  IF an.importMatch THEN ImportBranch(an, st)
  ELSE IF an.creationMatch THEN CreationBranch(an, st, id)
  ELSE IF an.printMatch THEN PrintBranch(an, st)
  ELSE LibraryCallBranch(an, st, id)

\* the line calls nanoid when it is accepted
UsesId(an) ==
  /\ ~an.importMatch
  /\ \/ an.creationMatch
     \/ /\ ~an.printMatch /\ an.libCallMatch
        /\ HandlerUsesId(Str(an.libName), Str(an.methodName))

(***************************************************************************)
(* State of a parse.                                                       *)
(***************************************************************************)
VARIABLES
  source,             \* the script: the lines read so far (vocabulary positions)
  run,                \* 1: first parse of the script, 2: a second parse of it
  i,                  \* number of lines the loop has gone through
  steps,              \* const steps
  variables,          \* const variables (identifier -> sprite object)
  spriteNames,        \* const spriteNames
  importedLibraries,  \* const importedLibraries
  usedIds,            \* the identifiers nanoid has returned in this parse
  pc,                 \* "parsing" inside the loop, "returned" afterwards
  result,             \* the value returned: [steps, problems]
  firstResult         \* the value the first parse returned (during run 2)

parserVars ==
  <<source, run, i, steps, variables, spriteNames, importedLibraries,
    usedIds, pc, result, firstResult>>

VARIABLES
  worldHtml,          \* the elements of world.html's document, in document order
  hasWorldFile,       \* the file system holds a file named world.html
  domParser,          \* typeof DOMParser !== 'undefined'
  language,           \* parseCode's language argument
  wpc,                \* "edit", "forEach", "switch" or "returned"
  propIndex,          \* how many matched elements props.forEach has visited
  worldSteps,         \* const worldSteps / parseWorldHTML's steps
  propIds,            \* the identifiers nanoid has returned in this call
  scriptResult,       \* let scriptResult
  codeResult          \* the value parseCode returned

worldVars ==
  <<worldHtml, hasWorldFile, domParser, language, wpc, propIndex, worldSteps,
    propIds, scriptResult, codeResult>>

VARIABLES
  executionSteps,     \* executionStepsRef.current
  currentStep,        \* useState currentStep
  isRunning,          \* useState isRunning
  isExecuting,        \* useState isExecuting: parseCode is in flight
  gameState,          \* useState gameState
  gameChanged,        \* gameState is another object than at the last render
  rendered,           \* what the closures of the last render captured
  renderDue,          \* "no", "later" (a render is scheduled) or "now"
  callbacks,          \* bag of the timers and animation frames not yet run
  awaits,             \* bag of the processStep calls awaiting a chat reply
  problems,           \* useState problems
  lastLog,            \* the last line of useState logs
  lastEvent           \* the handler or callback that ran last

playerVars ==
  <<executionSteps, currentStep, isRunning, isExecuting, gameState,
    gameChanged, rendered, renderDue, callbacks, awaits, problems, lastLog,
    lastEvent>>

NoResult == [steps |-> <<>>, problems |-> <<>>]

ParserInit ==
  /\ source = <<>>
  /\ run = 1
  /\ i = 0
  /\ steps = <<>>
  /\ variables = <<>>
  /\ spriteNames = {}
  /\ importedLibraries = {}
  /\ usedIds = {}
  /\ pc = "parsing"
  /\ result = NoResult
  /\ firstResult = NoResult

\* the parser state the loop body works on
ParserState ==
  [steps |-> steps, variables |-> variables, spriteNames |-> spriteNames,
   importedLibraries |-> importedLibraries]

\* a line number that counts from zero, like the loop index
lineNumber_zeroBased(idx) == idx

\* const lineNumber = i + 1, for the loop index idx
lineNumber(idx) == idx + 1

\* the catch clause: the value returned when a line throws
Catch(line, message) ==
  [steps |-> <<>>, problems |-> <<[line |-> line, message |-> message]>>]

\* one iteration of the for loop of parseUniversalCode on line k of the
\* vocabulary, nanoid returning id if it is called
LoopBody(k, id) ==
  LET Step(an, out) ==
        IF an.trimmedLine = <<>>
        THEN UNCHANGED <<steps, variables, spriteNames, importedLibraries,
                         usedIds, pc, result>>
        ELSE IF out.err # <<>>
        THEN /\ result' = Catch(lineNumber(i), out.err)
             /\ pc' = "returned"
             /\ UNCHANGED <<steps, variables, spriteNames, importedLibraries,
                            usedIds>>
        ELSE /\ steps' = out.steps
             /\ variables' = out.variables
             /\ spriteNames' = out.spriteNames
             /\ importedLibraries' = out.importedLibraries
             /\ usedIds' = IF UsesId(an) THEN usedIds \cup {id} ELSE usedIds
             /\ UNCHANGED <<pc, result>>
  IN  /\ i' = i + 1
      /\ Step(Analysis[k], ProcessLine(Analysis[k], ParserState, id))

\* the identifiers nanoid may return for line k
IdChoices(k) ==
  IF UsesId(Analysis[k]) THEN Ids \ usedIds ELSE {CHOOSE id \in Ids : TRUE}

\* the loop reads the next line of the script.  In the first parse the
\* script is any sequence of at most MaxLines lines, chosen line by line;
\* the second parse reads the same script again
ParseLine ==
  /\ pc = "parsing"
  /\ \/ /\ run = 1
        /\ Len(source) < MaxLines
        /\ \E k \in 1..Len(Vocabulary) :
             /\ source' = Append(source, k)
             /\ \E id \in IdChoices(k) : LoopBody(k, id)
     \/ /\ run = 2
        /\ i < Len(source)
        /\ UNCHANGED source
        /\ \E id \in IdChoices(source[i + 1]) : LoopBody(source[i + 1], id)
  /\ UNCHANGED <<run, firstResult>>
  /\ UNCHANGED <<worldVars, playerVars>>

\* the position of a line in the vocabulary
Pos(line) == CHOOSE k \in 1..Len(Lines) : Lines[k] = line

\* the lines a script goes on with after the line that failed
TailLines == {Pos(L_import_ai), Pos(L_say), Pos(L_garbage)}

\* the script has more lines after the line on which the parse returned
RestOfScript ==
  /\ pc = "returned"
  /\ run = 1
  /\ result.problems # <<>>
  /\ Len(source) < MaxLines
  /\ \E k \in TailLines : source' = Append(source, k)
  /\ UNCHANGED <<run, i, steps, variables, spriteNames, importedLibraries,
                 usedIds, pc, result, firstResult>>
  /\ UNCHANGED <<worldVars, playerVars>>

\* the loop ends at the end of the script: return { problems, steps }
ParseReturn ==
  /\ pc = "parsing"
  /\ i = Len(source)
  /\ i >= 1
  /\ result' = [steps |-> steps, problems |-> <<>>]
  /\ pc' = "returned"
  /\ UNCHANGED <<source, run, i, steps, variables, spriteNames,
                 importedLibraries, usedIds, firstResult>>
  /\ UNCHANGED <<worldVars, playerVars>>

\* parseUniversalCode is called again on the same source text
ParseAgain ==
  /\ pc = "returned"
  /\ run = 1
  /\ run' = 2
  /\ firstResult' = result
  /\ i' = 0
  /\ steps' = <<>>
  /\ variables' = <<>>
  /\ spriteNames' = {}
  /\ importedLibraries' = {}
  /\ usedIds' = {}
  /\ pc' = "parsing"
  /\ result' = NoResult
  /\ UNCHANGED source
  /\ UNCHANGED <<worldVars, playerVars>>

(***************************************************************************)
(* parseWorldHTML and parseCode (src/game/engine.ts).                      *)
(***************************************************************************)

\* elements of a world.html document: the class list, the data-shape and
\* the style attribute (<<>> when the attribute is absent)
E_wall ==
  [classList |-> {"prop"}, shape |-> <<"w", "a", "l", "l">>, style |-> <<"l", "e", "f", "t", ":", " ", "1", "0", "%", ";", " ", "t", "o", "p", ":", " ", "2", "0", "%", ";", " ", "w", "i", "d", "t", "h", ":", " ", "3", "0", "%", ";", " ", "h", "e", "i", "g", "h", "t", ":", " ", "5", "%", ";", " ", "b", "a", "c", "k", "g", "r", "o", "u", "n", "d", "-", "c", "o", "l", "o", "r", ":", " ", "#", "4", "4", "4">>]

E_bare == [classList |-> {"prop", "tree"}, shape |-> <<>>, style |-> <<>>]

E_rock ==
  [classList |-> {"prop"}, shape |-> <<"r", "o", "c", "k">>, style |-> <<"l", "e", "f", "t", ":", " ", "0", "%", ";", " ", "t", "o", "p", ":", " ", "a", "b", "c", ";", " ", "w", "i", "d", "t", "h", ":", " ", "1", "2", ".", "5", "%", ";">>]

E_zone ==
  [classList |-> {"zone"}, shape |-> <<"w", "a", "l", "l">>, style |-> <<"l", "e", "f", "t", ":", " ", "5", "%">>]

Elements == <<E_wall, E_bare, E_rock, E_zone>>

MaxElements == 3

\* doc.querySelectorAll('.prop'): the matching elements in document order
querySelectorAll_prop(doc) ==
  SelectSeq(doc, LAMBDA k : "prop" \in Elements[k].classList)

\* the reducer: const [key, value] = s.split(':');
\*              if (key && value) acc[key.trim()] = value.trim()
StyleSet(acc, kv) ==
  IF kv[1] # <<>> /\ Len(kv) >= 2 /\ kv[2] # <<>>
  THEN PutArg(acc, Str(Trim(kv[1])), Trim(kv[2]))
  ELSE acc

\* .filter(s => s.trim()).reduce(...) over the parts from position p on
RECURSIVE StyleReduce(_, _, _)
StyleReduce(parts, p, acc) ==
  IF p > Len(parts) THEN acc
  ELSE StyleReduce(parts, p + 1,
                   IF Trim(parts[p]) = <<>> THEN acc
                   ELSE StyleSet(acc, SplitAt(parts[p], ":")))

\* style.split(';').filter(...).reduce(..., {})
styleProps(style) == StyleReduce(SplitAt(style, ";"), 1, <<>>)

\* parseFloat(text) || fallback: NaN and 0 are falsy
ParseFloatOr(text, fallback) ==
  LET Pick(v) == IF IsNaN(v) \/ v.m = 0 THEN Num(fallback) ELSE v
  IN  Pick(ParseFloat(text))

\* the prop parseWorldHTML builds for one element; an absent
\* background-color is the empty string here
newProp(el, id) ==
  LET Build(props) ==
        [id     |-> Str(id),
         shape  |-> Str(OrElse(el.shape, <<"r", "o", "c", "k">>)),
         x      |-> ParseFloatOr(Arg(props, "left"), 50),
         y      |-> ParseFloatOr(Arg(props, "top"), 50),
         width  |-> ParseFloatOr(Arg(props, "width"), 10),
         height |-> ParseFloatOr(Arg(props, "height"), 10),
         styles |-> [backgroundColor |->
                       Str(Arg(props, "background-color"))]]
  IN  Build(styleProps(el.style))

\* the results executePythonCode and executeJavaScriptCode can return: both
\* return the steps pushed before an error together with the problem
Script_sprite ==
  [type |-> "CREATE_SPRITE",
   sprite |-> [id |-> "s1", name |-> "Bot", shape |-> "cube", x |-> Num(50),
               y |-> Num(50), vx |-> Zero, vy |-> Zero, rotation |-> Zero],
   duration |-> Zero]

Script_move ==
  [type |-> "MOVE_TO", spriteId |-> "s1", x |-> Num(80), y |-> Num(20),
   duration |-> Num(1000)]

ScriptResults ==
  { [steps |-> <<>>, problems |-> <<>>],
    [steps |-> <<Script_sprite, Script_move>>, problems |-> <<>>],
    [steps |-> <<Script_sprite>>,
     problems |-> <<[line |-> 2, message |-> "name 'bot' is not defined"]>>],
    [steps |-> <<>>,
     problems |-> <<[line |-> 1, message |-> "invalid syntax"]>>] }

\* the catch branch of the transpiled languages
TranspilationError ==
  [steps |-> <<>>,
   problems |-> <<[line |-> 0,
                   message |-> "Transpilation Error: request failed"]>>]

\* case 'html' and default
NotRunnable == [steps |-> <<>>, problems |-> <<>>]

Languages == {"py", "ts", "html", "rs", "md"}

\* switch (language): the results the script can give
ScriptOutcomes(lang) ==
  CASE lang \in {"py", "js", "jsx", "ts", "tsx"} -> ScriptResults
    [] lang = "html" -> {NotRunnable}
    [] lang \in {"c", "cpp", "cs", "dart", "go", "java", "kt", "rs", "scala",
                 "swift"} -> ScriptResults \cup {TranspilationError}
    [] OTHER -> {NotRunnable}

\* { ...scriptResult, steps: [script steps only] }
Combine_scriptOnly(world, script) == script

\* { ...scriptResult, steps: [...worldSteps, ...scriptResult.steps] }
Combine(world, script) ==
  [steps |-> world \o script.steps, problems |-> script.problems]

\* the world machine before parseCode is called
WorldStart ==
  /\ worldHtml = <<>>
  /\ hasWorldFile \in BOOLEAN
  /\ domParser \in BOOLEAN
  /\ language = ""
  /\ wpc = "edit"
  /\ propIndex = 0
  /\ worldSteps = <<>>
  /\ propIds = {}
  /\ scriptResult = NoResult
  /\ codeResult = NoResult

\* the state of the world machine while the parser machine runs
WorldIdle ==
  /\ worldHtml = <<>>
  /\ hasWorldFile = FALSE
  /\ domParser = TRUE
  /\ language = ""
  /\ wpc = "edit"
  /\ propIndex = 0
  /\ worldSteps = <<>>
  /\ propIds = {}
  /\ scriptResult = NoResult
  /\ codeResult = NoResult

\* the user adds an element to world.html
EditWorld ==
  /\ wpc = "edit"
  /\ hasWorldFile
  /\ Len(worldHtml) < MaxElements
  /\ \E k \in 1..Len(Elements) : worldHtml' = Append(worldHtml, k)
  /\ UNCHANGED <<hasWorldFile, domParser, language, wpc, propIndex,
                 worldSteps, propIds, scriptResult, codeResult>>
  /\ UNCHANGED <<parserVars, playerVars>>

\* parseCode is called: worldFile ? parseWorldHTML(worldFile.code) : [],
\* and parseWorldHTML returns no steps when there is no DOMParser
CallParseCode ==
  /\ wpc = "edit"
  /\ \E lang \in Languages : language' = lang
  /\ wpc' = IF hasWorldFile /\ domParser THEN "forEach" ELSE "switch"
  /\ propIndex' = 0
  /\ worldSteps' = <<>>
  /\ propIds' = {}
  /\ UNCHANGED <<worldHtml, hasWorldFile, domParser, scriptResult, codeResult>>
  /\ UNCHANGED <<parserVars, playerVars>>

\* props.forEach: one matched element becomes a CREATE_PROP step
PropsForEach ==
  /\ wpc = "forEach"
  /\ propIndex < Len(querySelectorAll_prop(worldHtml))
  /\ propIndex' = propIndex + 1
  /\ \E id \in Ids \ propIds :
       /\ propIds' = propIds \cup {id}
       /\ worldSteps' =
            Append(worldSteps,
                   [type |-> "CREATE_PROP",
                    prop |-> newProp(Elements[querySelectorAll_prop(worldHtml)
                                                [propIndex + 1]], id),
                    duration |-> Zero])
  /\ UNCHANGED <<worldHtml, hasWorldFile, domParser, language, wpc,
                 scriptResult, codeResult>>
  /\ UNCHANGED <<parserVars, playerVars>>

\* parseWorldHTML returns its steps
ReturnWorldSteps ==
  /\ wpc = "forEach"
  /\ propIndex = Len(querySelectorAll_prop(worldHtml))
  /\ wpc' = "switch"
  /\ UNCHANGED <<worldHtml, hasWorldFile, domParser, language, propIndex,
                 worldSteps, propIds, scriptResult, codeResult>>
  /\ UNCHANGED <<parserVars, playerVars>>

\* the script runs and parseCode returns the combined result
RunScript ==
  /\ wpc = "switch"
  /\ \E r \in ScriptOutcomes(language) :
       /\ scriptResult' = r
       /\ codeResult' = Combine(worldSteps, r)
  /\ wpc' = "returned"
  /\ UNCHANGED <<worldHtml, hasWorldFile, domParser, language, propIndex,
                 worldSteps, propIds>>
  /\ UNCHANGED <<parserVars, playerVars>>

(***************************************************************************)
(* The replay player of the application component                          *)
(* (src/unnamed/part_018).  The world keeps the fields the steps of a      *)
(* replay move: sprites (position, velocity, rotation, message), props,    *)
(* gravity and background colour.                                          *)
(***************************************************************************)

initialGameState ==
  [sprites |-> <<>>, props |-> <<>>, effects |-> <<>>, gravity |-> Zero,
   backgroundColor |-> "#111827"]

\* a + b on decimal numbers (NaN when a or b is NaN)
NumPlus(a, b) ==
  IF IsNaN(a) \/ IsNaN(b) THEN NaN
  ELSE IF a.e >= b.e
  THEN Norm([m |-> a.m + b.m * Pow10(a.e - b.e), e |-> a.e])
  ELSE Norm([m |-> a.m * Pow10(b.e - a.e) + b.m, e |-> b.e])

\* -a
NumNeg(a) == IF IsNaN(a) THEN NaN ELSE [a EXCEPT !.m = 0 - @]

\* a > n and a < n for a decimal number a and an integer n (false for NaN)
NumAbove(a, n) == ~IsNaN(a) /\ a.m > n * Pow10(a.e)

NumBelow(a, n) == ~IsNaN(a) /\ a.m < n * Pow10(a.e)

\* one sprite in the physics loop of runNextStep
FallenSprite(s, gravity) ==
  LET Clamp(x, vx, y, vy) ==
        [s EXCEPT
           !.x  = IF NumAbove(x, 100) THEN Num(100)
                  ELSE IF NumBelow(x, 0) THEN Zero ELSE x,
           !.vx = IF NumAbove(x, 100) \/ NumBelow(x, 0) THEN Zero ELSE vx,
           !.y  = IF NumAbove(y, 95) THEN Num(95)
                  ELSE IF NumBelow(y, 0) THEN Zero ELSE y,
           !.vy = IF NumAbove(y, 95) \/ NumBelow(y, 0) THEN Zero ELSE vy]
      Move(vy) == Clamp(NumPlus(s.x, s.vx), s.vx, NumPlus(s.y, vy), vy)
  IN  Move(NumPlus(s.vy, gravity))

\* the first setGameState of runNextStep: the physics tick
physicsTick(g) ==
  IF g.gravity.m = 0 /\ ~IsNaN(g.gravity) THEN g
  ELSE [g EXCEPT !.sprites =
          [n \in DOMAIN g.sprites |-> FallenSprite(g.sprites[n], g.gravity)]]

\* draft.effects.filter(effect => now - effect.creationTime < effect.duration):
\* the lists the filter can leave.  Which effects have expired depends on the
\* clock; effects of one type last equally long, so an effect has expired
\* only when the earlier effects of its type have
unexpired(effects) ==
  LET Left(kept) == [j \in DOMAIN kept |-> effects[kept[j]]]
      Keep(gone) ==
        Left(SelectSeq([p \in DOMAIN effects |-> p], LAMBDA p : p \notin gone))
  IN  {Keep(gone) :
         gone \in {D \in SUBSET DOMAIN effects :
                     \A p \in D : \A q \in 1..(p - 1) :
                       effects[q].type = effects[p].type => q \in D}}

\* the sprite object a CREATE_SPRITE step pushes: it has no message and no
\* brain yet (<<>> stands for undefined), and its styles and data are empty
\* tables
PushedSprite(sprite) ==
  [id |-> sprite.id, name |-> sprite.name, shape |-> sprite.shape,
   x |-> sprite.x, y |-> sprite.y, vx |-> sprite.vx, vy |-> sprite.vy,
   rotation |-> sprite.rotation, message |-> <<>>, styles |-> <<>>,
   data |-> <<>>, brain |-> <<>>]

\* the identifiers of the sprites of a world, in order
SpriteIds(sprites) == [n \in DOMAIN sprites |-> sprites[n].id]

HasSpriteId(ids, id) == \E n \in DOMAIN ids : ids[n] = id

\* what a closure uses of the gameState it captured: the identifiers of its
\* sprites in the order of their first appearance (find and filter()[0]
\* give the same sprites on this list as on the list with repetitions)
seenSprites(sprites) ==
  LET IdsAt(first) == [j \in DOMAIN first |-> sprites[first[j]].id]
  IN  IdsAt(SelectSeq([n \in DOMAIN sprites |-> n],
                      LAMBDA n : \A q \in 1..(n - 1) :
                                   sprites[q].id # sprites[n].id))

\* draft.sprites.find(s => s.id === step.spriteId): the position of the
\* first sprite with the identifier, 0 when there is none
FoundSprite(g, id) ==
  IF ~HasSpriteId(SpriteIds(g.sprites), id) THEN 0
  ELSE CHOOSE n \in DOMAIN g.sprites :
         /\ g.sprites[n].id = id
         /\ \A q \in 1..(n - 1) : g.sprites[q].id # id

\* Math.atan2(dy, dx) * (180 / Math.PI) + 90 for directions along an axis
LookAngle(dx, dy) ==
  CASE IsNaN(dx) \/ IsNaN(dy) -> NaN
    [] dx.m = 0 /\ dy.m = 0 -> Num(90)
    [] dx.m > 0 /\ dy.m = 0 -> Num(90)
    [] dx.m = 0 /\ dy.m > 0 -> Num(180)
    [] dx.m < 0 /\ dy.m = 0 -> Num(270)
    [] dx.m = 0 /\ dy.m < 0 -> Zero

\* the cases of processStep's producer that change the sprite at position n
ChangedSprite(g, step, n) ==
  CASE step.type = "SAY" ->
         [g EXCEPT !.sprites[n].message =
            <<[text |-> step.message, duration |-> step.duration]>>]
    [] step.type = "CLEAR_MESSAGE" -> [g EXCEPT !.sprites[n].message = <<>>]
    [] step.type \in {"MOVE_TO", "GO_TO"} ->
         [g EXCEPT !.sprites[n].x = step.x, !.sprites[n].y = step.y]
    [] step.type = "ROTATE_TO" ->
         [g EXCEPT !.sprites[n].rotation = step.angle]
    [] step.type = "LOOK_AT" ->
         [g EXCEPT !.sprites[n].rotation =
            LookAngle(NumPlus(step.x, NumNeg(g.sprites[n].x)),
                      NumPlus(step.y, NumNeg(g.sprites[n].y)))]
    [] step.type = "SET_STYLE" ->
         [g EXCEPT !.sprites[n].styles = PutArg(@, step.property, step.value)]
    [] step.type = "SET_DATA" ->
         [g EXCEPT !.sprites[n].data = PutArg(@, step.key, step.value)]
    [] step.type = "SPRITE_CREATE_NETWORK" ->
         [g EXCEPT !.sprites[n].brain = <<[rewards |-> Zero]>>]
    [] step.type = "SPRITE_REWARD" ->
         [g EXCEPT !.sprites[n].brain =
                     <<[rewards |-> NumPlus(IF @ = <<>> THEN Zero
                                            ELSE @[1].rewards, step.value)]>>,
                   !.effects = Append(@, [type |-> "rewardflash",
                                          spriteId |-> step.spriteId])]

\* the producer of processStep: the step applied to the world
processStep(g, step) ==
  CASE step.type = "CREATE_SPRITE" ->
         [g EXCEPT !.sprites = Append(@, PushedSprite(step.sprite))]
    [] step.type = "CREATE_PROP" ->
         [g EXCEPT !.props = Append(@, step.prop)]
    [] step.type = "DELETE_SPRITE" ->
         [g EXCEPT !.sprites = SelectSeq(@, LAMBDA s : s.id # step.spriteId)]
    [] step.type \in {"SAY", "CLEAR_MESSAGE", "MOVE_TO", "GO_TO", "ROTATE_TO",
                      "LOOK_AT", "SET_STYLE", "SET_DATA",
                      "SPRITE_CREATE_NETWORK", "SPRITE_REWARD"} ->
         IF FoundSprite(g, step.spriteId) = 0 THEN g
         ELSE ChangedSprite(g, step, FoundSprite(g, step.spriteId))
    [] step.type = "SET_GRAVITY" -> [g EXCEPT !.gravity = step.strength]
    [] step.type = "PLAY_SOUND" ->
         [g EXCEPT !.effects = Append(@, [type |-> "soundwave", x |-> step.x,
                                          y |-> step.y])]
    [] step.type = "SET_BACKGROUND" ->
         [g EXCEPT !.backgroundColor = step.color]
    [] OTHER -> g

\* the CREATE_SPRITE, CREATE_PROP and SET_BACKGROUND steps of the sequence
\* from position p on, applied to g
RECURSIVE previewState(_, _, _)
previewState(g, stepList, p) ==
  IF p > Len(stepList) THEN g
  ELSE previewState(IF stepList[p].type \in {"CREATE_SPRITE", "CREATE_PROP",
                                             "SET_BACKGROUND"}
                    THEN processStep(g, stepList[p]) ELSE g,
                    stepList, p + 1)

\* every step of the sequence from position p on, applied to g
RECURSIVE everyStep(_, _, _)
everyStep(g, stepList, p) ==
  IF p > Len(stepList) THEN g
  ELSE everyStep(processStep(g, stepList[p]), stepList, p + 1)

\* a preview that plays the whole sequence
replayWorld_allSteps(stepList) == everyStep(initialGameState, stepList, 1)

\* the world prepareForReplay sets
replayWorld(stepList) ==
  IF Len(stepList) = 0 THEN initialGameState
  ELSE previewState(initialGameState, stepList, 1)

\* the lines processStep and prepareForReplay write to the log
Log_thinking == "is thinking..."

Log_responds == "responds."

Log_chatFailed == "Error: Gemini API call failed"

Log_noReplay == "No replay available. Run code to create one."

Log_replayReady == "Replay is ready. Press play to start."

Log_preparing == "Preparing to run code..."

\* a problem on line 1 instead
GeminiProblem_line1 == [line |-> 1, message |-> "Gemini API Error"]

\* the problem the catch clause of processStep appends
GeminiProblem == [line |-> 0, message |-> "Gemini API Error"]

\* const responseSteps of processStep
responseSteps(receiverId) ==
  << [type |-> "SAY", spriteId |-> receiverId, message |-> "reply",
      duration |-> Zero],
     [type |-> "WAIT", duration |-> Num(4000)],
     [type |-> "CLEAR_MESSAGE", spriteId |-> receiverId, duration |-> Zero] >>

\* Array.prototype.splice(start, 0, ...items)
Splice(list, start, items) ==
  IF start >= Len(list) THEN list \o items
  ELSE SubSeq(list, 1, start) \o items \o SubSeq(list, start + 1, Len(list))

\* senderSprite && receiverSprite, looked up in the world the callback saw
FindsChatPair(step, seen) ==
  /\ step.type = "AI_CHAT_REQUEST"
  /\ HasSpriteId(seen, step.spriteId)
  /\ \E n \in DOMAIN seen : seen[n] # step.spriteId

\* otherSprites[0].id
receiverSprite(step, seen) ==
  seen[CHOOSE n \in DOMAIN seen :
         /\ seen[n] # step.spriteId
         /\ \A q \in 1..(n - 1) : seen[q] = step.spriteId]

\* the sequences parseCode can return to handleRun
Replay_sprite(id, name) ==
  [type |-> "CREATE_SPRITE",
   sprite |-> [id |-> id, name |-> name, shape |-> "cube", x |-> Num(50),
               y |-> Num(50), vx |-> Zero, vy |-> Zero, rotation |-> Zero],
   duration |-> Zero]

Replay_prop ==
  [type |-> "CREATE_PROP",
   prop |-> [id |-> "p1", shape |-> "wall", x |-> Num(10), y |-> Num(20),
             width |-> Num(30), height |-> Num(5),
             styles |-> [backgroundColor |-> "#444"]],
   duration |-> Zero]

Replay_move ==
  << [type |-> "SET_BACKGROUND", color |-> "#000", duration |-> Zero],
     Replay_sprite("s1", "B1"),
     [type |-> "MOVE_TO", spriteId |-> "s1", x |-> Num(80), y |-> Num(20),
      duration |-> Num(1000)],
     Replay_prop >>

Replay_say ==
  << Replay_sprite("s1", "B1"),
     [type |-> "SAY", spriteId |-> "s1", message |-> "hi", duration |-> Zero],
     [type |-> "WAIT", duration |-> Num(1000)],
     [type |-> "CLEAR_MESSAGE", spriteId |-> "s1", duration |-> Zero] >>

Replay_fall ==
  << [type |-> "SET_GRAVITY", strength |-> Num(50), duration |-> Zero],
     Replay_sprite("s1", "B1"),
     [type |-> "ROTATE_TO", spriteId |-> "s1", angle |-> Num(90),
      duration |-> Num(1000)] >>

Replay_chat ==
  << Replay_sprite("s1", "B1"),
     Replay_sprite("s2", "B2"),
     [type |-> "AI_CHAT_REQUEST", spriteId |-> "s1", message |-> "hello",
      duration |-> Zero],
     [type |-> "MOVE_TO", spriteId |-> "s2", x |-> Num(80), y |-> Num(20),
      duration |-> Num(1000)] >>

ParseResults ==
  { [steps |-> Replay_move, problems |-> <<>>],
    [steps |-> Replay_say, problems |-> <<>>],
    [steps |-> Replay_fall, problems |-> <<>>],
    [steps |-> Replay_chat, problems |-> <<>>],
    [steps |-> <<Replay_sprite("s3", "B3")>>,
     problems |-> <<[line |-> 2, message |-> "name 'bot' is not defined"]>>] }

MaxPending == 2

MaxSprites == 4

MaxSteps == 7

MaxProblems == 2

MaxEffects == 2

MaxRewards == 4

\* the bounds on the timers, frames and replies in flight, on the objects
\* of the world and on the length of the sequence
PlayerBounded ==
  /\ BagCardinality(callbacks) + BagCardinality(awaits) <= MaxPending
  /\ Len(gameState.sprites) <= MaxSprites
  /\ Len(gameState.props) <= MaxSprites
  /\ Len(gameState.effects) <= MaxEffects
  /\ \A n \in DOMAIN gameState.sprites :
       \/ gameState.sprites[n].brain = <<>>
       \/ /\ gameState.sprites[n].brain[1].rewards.m <= MaxRewards
          /\ gameState.sprites[n].brain[1].rewards.m >= 0 - MaxRewards
  /\ Len(executionSteps) <= MaxSteps
  /\ Len(problems) <= MaxProblems

\* what a render captures in its closures
Closure ==
  [currentStep |-> currentStep, isRunning |-> isRunning,
   isExecuting |-> isExecuting, seen |-> seenSprites(gameState.sprites),
   length |-> Len(executionSteps)]

PlayerStart ==
  /\ executionSteps = <<>>
  /\ currentStep = 0
  /\ isRunning = FALSE
  /\ isExecuting = FALSE
  /\ gameState = initialGameState
  /\ gameChanged = FALSE
  /\ rendered = [currentStep |-> 0, isRunning |-> FALSE,
                 isExecuting |-> FALSE, seen |-> <<>>, length |-> 0]
  /\ renderDue = "no"
  /\ callbacks = EmptyBag
  /\ awaits = EmptyBag
  /\ problems = <<>>
  /\ lastLog = "Welcome! Your environment will build live as you code."
  /\ lastEvent = "mount"

\* clearTimeout(runnerTimeoutRef.current): the timer the ref holds is the
\* one marked ref
clearTimeout(cb) ==
  [c \in {d \in DOMAIN cb : ~d.ref} |-> cb[c]]

\* runnerTimeoutRef.current = window.setTimeout(runNextStep, duration)
setTimeout(cb, k, seen) ==
  LET Unmark(marked) ==
        clearTimeout(cb)
          (+) SetToBag({[c EXCEPT !.ref = FALSE] : c \in marked})
          (+) SetToBag({[kind |-> "timeout", k |-> k, seen |-> seen,
                         ref |-> TRUE]})
  IN  Unmark({c \in DOMAIN cb : c.ref})

\* requestAnimationFrame(runNextStep)
requestAnimationFrame(cb, k, seen) ==
  cb (+) SetToBag({[kind |-> "frame", k |-> k, seen |-> seen, ref |-> FALSE]})

\* runNextStep after `await processStep(step)`: the step index moves on
\* and the next call is scheduled, or the replay ends
AfterProcessStep(k, duration, seen, cb) ==
  /\ currentStep' = k + 1
  /\ IF k + 1 < Len(executionSteps')
     THEN /\ callbacks' = IF NumAbove(duration, 0) THEN setTimeout(cb, k, seen)
                          ELSE requestAnimationFrame(cb, k, seen)
          /\ UNCHANGED isRunning
     ELSE /\ isRunning' = FALSE
          /\ callbacks' = cb

\* runNextStep as the closure that captured currentStep = k and the sprites
\* seen; cb are the callbacks still to run, due and changed the render state
runNextStep(k, seen, cb, due, changed) ==
  IF k >= Len(executionSteps)
  THEN /\ isRunning' = FALSE
       /\ callbacks' = cb
       /\ renderDue' = IF isRunning /\ due = "no" THEN "later" ELSE due
       /\ gameChanged' = changed
       /\ UNCHANGED <<executionSteps, currentStep, gameState, awaits, lastLog>>
  ELSE /\ \E kept \in unexpired(gameState.effects) :
            gameState' =
              processStep(physicsTick([gameState EXCEPT !.effects = kept]),
                          executionSteps[k + 1])
       /\ gameChanged' = TRUE
       /\ renderDue' = "later"
       /\ UNCHANGED executionSteps
       /\ IF FindsChatPair(executionSteps[k + 1], seen)
          THEN /\ awaits' = awaits (+) SetToBag({
                    [fn |-> "runNextStep", k |-> k, seen |-> seen,
                     duration |-> executionSteps[k + 1].duration,
                     receiver |-> receiverSprite(executionSteps[k + 1],
                                                 seen)]})
               /\ callbacks' = cb
               /\ lastLog' = Log_thinking
               /\ UNCHANGED <<currentStep, isRunning>>
          ELSE /\ AfterProcessStep(k, executionSteps[k + 1].duration, seen, cb)
               /\ UNCHANGED <<awaits, lastLog>>

\* prepareForReplay with the sequence stepList in the ref
prepareForReplay(stepList) ==
  /\ isRunning' = FALSE
  /\ currentStep' = 0
  /\ gameState' = replayWorld(stepList)
  /\ gameChanged' = TRUE
  /\ lastLog' = IF Len(stepList) = 0 THEN Log_noReplay ELSE Log_replayReady

\* React renders: the closures capture the state, and when isRunning or
\* runNextStep changed the effect's cleanup clears the timer of the ref and
\* the effect calls runNextStep if isRunning
Render ==
  /\ renderDue # "no"
  /\ rendered' = Closure
  /\ lastEvent' = "render"
  /\ UNCHANGED <<isExecuting, problems>>
  /\ IF rendered.isRunning # isRunning \/ rendered.currentStep # currentStep
          \/ gameChanged
     THEN IF isRunning
          THEN runNextStep(currentStep, seenSprites(gameState.sprites),
                           clearTimeout(callbacks), "no", FALSE)
          ELSE /\ callbacks' = clearTimeout(callbacks)
               /\ renderDue' = "no"
               /\ gameChanged' = FALSE
               /\ UNCHANGED <<executionSteps, currentStep, isRunning,
                              gameState, awaits, lastLog>>
     ELSE /\ renderDue' = "no"
          /\ gameChanged' = FALSE
          /\ UNCHANGED <<executionSteps, currentStep, isRunning, gameState,
                         callbacks, awaits, lastLog>>
  /\ UNCHANGED <<parserVars, worldVars>>
  /\ PlayerBounded'

\* the timer set by runNextStep expires
TimeoutFires ==
  /\ renderDue # "now"
  /\ \E c \in BagToSet(callbacks) :
       /\ c.kind = "timeout"
       /\ runNextStep(c.k, c.seen, callbacks (-) SetToBag({c}), renderDue,
                      gameChanged)
  /\ lastEvent' = "timeout"
  /\ UNCHANGED <<isExecuting, rendered, problems>>
  /\ UNCHANGED <<parserVars, worldVars>>
  /\ PlayerBounded'

\* the animation frame requested by runNextStep arrives
FrameFires ==
  /\ renderDue # "now"
  /\ \E c \in BagToSet(callbacks) :
       /\ c.kind = "frame"
       /\ runNextStep(c.k, c.seen, callbacks (-) SetToBag({c}), renderDue,
                      gameChanged)
  /\ lastEvent' = "frame"
  /\ UNCHANGED <<isExecuting, rendered, problems>>
  /\ UNCHANGED <<parserVars, worldVars>>
  /\ PlayerBounded'

\* setTimeout(() => setIsRunning(true), 50) of handleToggleReplay expires
ReplayTimerFires ==
  /\ renderDue # "now"
  /\ \E c \in BagToSet(callbacks) :
       /\ c.kind = "replay"
       /\ callbacks' = callbacks (-) SetToBag({c})
  /\ isRunning' = TRUE
  /\ renderDue' = IF ~isRunning /\ renderDue = "no" THEN "later" ELSE renderDue
  /\ lastEvent' = "replay"
  /\ UNCHANGED <<executionSteps, currentStep, isExecuting, gameState,
                 gameChanged, rendered, awaits, problems, lastLog>>
  /\ UNCHANGED <<parserVars, worldVars>>

\* Run This File: handleRunCurrentFile and handleRun up to `await parseCode`
handleRunCurrentFile ==
  /\ renderDue # "now"
  /\ ~rendered.isExecuting
  /\ isExecuting' = TRUE
  /\ isRunning' = FALSE
  /\ callbacks' = clearTimeout(callbacks)
  /\ problems' = <<>>
  /\ lastLog' = Log_preparing
  /\ renderDue' = "now"
  /\ lastEvent' = "run"
  /\ UNCHANGED <<executionSteps, currentStep, gameState, gameChanged,
                 rendered, awaits>>
  /\ UNCHANGED <<parserVars, worldVars>>

\* a handleRun that stores the steps whatever the problems
HandedSteps_always(r) == r.steps

\* what handleRun puts into executionStepsRef for the parse result r
HandedSteps(r) == IF Len(r.problems) > 0 THEN <<>> ELSE r.steps

\* handleRun after `await parseCode`: the sequence is stored, or cleared
\* when there are problems, and prepareForReplay builds the preview
handleRun ==
  /\ renderDue # "now"
  /\ isExecuting
  /\ \E r \in ParseResults :
       /\ problems' = r.problems
       /\ executionSteps' = HandedSteps(r)
       /\ prepareForReplay(executionSteps')
  /\ callbacks' = clearTimeout(callbacks)
  /\ isExecuting' = FALSE
  /\ renderDue' = "later"
  /\ lastEvent' = "compiled"
  /\ UNCHANGED <<rendered, awaits>>
  /\ UNCHANGED <<parserVars, worldVars>>

\* the play button: pause, resume, or replay from the start when finished
handleToggleReplay ==
  /\ renderDue # "now"
  /\ ~(rendered.isExecuting \/ rendered.length = 0)
  /\ Len(executionSteps) # 0
  /\ IF rendered.isRunning
     THEN /\ isRunning' = FALSE
          /\ UNCHANGED <<currentStep, gameState, gameChanged, callbacks,
                         lastLog>>
     ELSE IF rendered.currentStep >= Len(executionSteps)
          THEN /\ prepareForReplay(executionSteps)
               /\ callbacks' = clearTimeout(callbacks)
                    (+) SetToBag({[kind |-> "replay", k |-> 0, seen |-> <<>>,
                                   ref |-> FALSE]})
          ELSE /\ isRunning' = TRUE
               /\ UNCHANGED <<currentStep, gameState, gameChanged, callbacks,
                              lastLog>>
  /\ renderDue' = "now"
  /\ lastEvent' = "toggle"
  /\ UNCHANGED <<executionSteps, isExecuting, rendered, awaits, problems>>
  /\ UNCHANGED <<parserVars, worldVars>>
  /\ PlayerBounded'

\* the stop button
handleStopReplay ==
  /\ renderDue # "now"
  /\ ~(rendered.isExecuting \/ rendered.length = 0)
  /\ prepareForReplay(executionSteps)
  /\ callbacks' = clearTimeout(callbacks)
  /\ renderDue' = "now"
  /\ lastEvent' = "stop"
  /\ UNCHANGED <<executionSteps, isExecuting, rendered, awaits, problems>>
  /\ UNCHANGED <<parserVars, worldVars>>

\* the step button: processStep on the step at the rendered index
handleStepForward ==
  /\ renderDue # "now"
  /\ ~(rendered.isExecuting \/ rendered.isRunning
         \/ rendered.currentStep >= rendered.length)
  /\ rendered.currentStep < Len(executionSteps)
  /\ gameState' = processStep(gameState,
                              executionSteps[rendered.currentStep + 1])
  /\ gameChanged' = TRUE
  /\ IF FindsChatPair(executionSteps[rendered.currentStep + 1], rendered.seen)
     THEN /\ awaits' = awaits (+) SetToBag({
               [fn |-> "handleStepForward", k |-> rendered.currentStep,
                seen |-> rendered.seen,
                duration |-> executionSteps[rendered.currentStep + 1].duration,
                receiver |-> receiverSprite(
                               executionSteps[rendered.currentStep + 1],
                               rendered.seen)]})
          /\ lastLog' = Log_thinking
          /\ UNCHANGED currentStep
     ELSE /\ currentStep' = rendered.currentStep + 1
          /\ UNCHANGED <<awaits, lastLog>>
  /\ renderDue' = "now"
  /\ lastEvent' = "step"
  /\ UNCHANGED <<executionSteps, isRunning, isExecuting, rendered, callbacks,
                 problems>>
  /\ UNCHANGED <<parserVars, worldVars>>
  /\ PlayerBounded'

\* the caller of processStep goes on after the chat request has settled
AfterChat(a) ==
  IF a.fn = "runNextStep"
  THEN AfterProcessStep(a.k, a.duration, a.seen, callbacks)
  ELSE /\ currentStep' = a.k + 1
       /\ UNCHANGED <<isRunning, callbacks>>

\* getGeminiResponse resolves: the reply is spliced in after the index the
\* closure captured
ChatReply ==
  /\ renderDue # "now"
  /\ \E a \in BagToSet(awaits) :
       /\ awaits' = awaits (-) SetToBag({a})
       /\ executionSteps' =
            Splice(executionSteps, a.k + 1, responseSteps(a.receiver))
       /\ gameChanged' =
            (gameChanged
               \/ HasSpriteId(SpriteIds(gameState.sprites), a.receiver))
       /\ AfterChat(a)
  /\ lastLog' = Log_responds
  /\ renderDue' = "later"
  /\ lastEvent' = "reply"
  /\ UNCHANGED <<isExecuting, gameState, rendered, problems>>
  /\ UNCHANGED <<parserVars, worldVars>>
  /\ PlayerBounded'

\* getGeminiResponse rejects: a problem is reported, the failure is logged
\* and nothing is spliced
ChatError ==
  /\ renderDue # "now"
  /\ \E a \in BagToSet(awaits) :
       /\ awaits' = awaits (-) SetToBag({a})
       /\ UNCHANGED executionSteps
       /\ AfterChat(a)
  /\ problems' = Append(problems, GeminiProblem)
  /\ lastLog' = Log_chatFailed
  /\ renderDue' = "later"
  /\ lastEvent' = "error"
  /\ UNCHANGED <<isExecuting, gameState, gameChanged, rendered>>
  /\ UNCHANGED <<parserVars, worldVars>>
  /\ PlayerBounded'

PlayerIdle == PlayerStart

vars == <<parserVars, worldVars, playerVars>>

Init == ParserInit /\ WorldIdle /\ PlayerIdle

WorldNext ==
  EditWorld \/ CallParseCode \/ PropsForEach \/ ReturnWorldSteps \/ RunScript

WorldInit == ParserInit /\ WorldStart /\ PlayerIdle

WorldSpec == WorldInit /\ [][WorldNext]_vars

PlayerNext ==
  \/ handleRunCurrentFile
  \/ handleRun
  \/ handleToggleReplay
  \/ handleStopReplay
  \/ handleStepForward
  \/ Render
  \/ TimeoutFires
  \/ FrameFires
  \/ ReplayTimerFires
  \/ ChatReply
  \/ ChatError

PlayerInit == ParserInit /\ WorldIdle /\ PlayerStart

PlayerSpec == PlayerInit /\ [][PlayerNext]_vars

\* the player after a compile without problems, stepsDone presses of the
\* step button and a press of the play button: it is running, and the render
\* of the click is due
PlayPressed(stepList, stepsDone) ==
  /\ executionSteps = stepList
  /\ currentStep = stepsDone
  /\ isRunning = TRUE
  /\ isExecuting = FALSE
  /\ gameState = everyStep(replayWorld(stepList),
                           SubSeq(stepList, 1, stepsDone), 1)
  /\ gameChanged = FALSE
  /\ rendered = [currentStep |-> stepsDone, isRunning |-> FALSE,
                 isExecuting |-> FALSE,
                 seen |-> seenSprites(gameState.sprites),
                 length |-> Len(stepList)]
  /\ renderDue = "now"
  /\ callbacks = EmptyBag
  /\ awaits = EmptyBag
  /\ problems = <<>>
  /\ lastLog = Log_replayReady
  /\ lastEvent = "toggle"

\* the running player left alone: no button is pressed
PlaybackStart ==
  \E r \in {q \in ParseResults : q.problems = <<>>} :
    \E stepsDone \in 0..(Len(r.steps) - 1) :
      /\ \A n \in 1..stepsDone : r.steps[n].type # "AI_CHAT_REQUEST"
      /\ PlayPressed(r.steps, stepsDone)

PlaybackInit == ParserInit /\ WorldIdle /\ PlaybackStart

PlaybackNext ==
  Render \/ TimeoutFires \/ FrameFires \/ ChatReply \/ ChatError

\* React carries out a render that is due, the browser runs the timers and
\* animation frames that are queued, and a dialogue call settles
PlaybackFairness ==
  /\ WF_vars(Render)
  /\ WF_vars(TimeoutFires)
  /\ WF_vars(FrameFires)
  /\ WF_vars(ChatReply \/ ChatError)

PlaybackSpec == PlaybackInit /\ [][PlaybackNext]_vars /\ PlaybackFairness

\* the sequences of at most n of the given lines
RECURSIVE SeqsUpTo(_, _)
SeqsUpTo(S, n) ==
  IF n = 0 THEN {<<>>}
  ELSE LET shorter == SeqsUpTo(S, n - 1)
       IN  shorter \cup {Append(q, x) : q \in shorter, x \in S}

\* the steps of a drill after its opening
MaxDrill == 2

\* steps of the ExecutionStep type (src/game/types.ts) that the sequences
\* of ParseResults do not hold
Step_network(id) ==
  [type |-> "SPRITE_CREATE_NETWORK", spriteId |-> id, duration |-> Zero]

Step_reward(id, value) ==
  [type |-> "SPRITE_REWARD", spriteId |-> id, value |-> Num(value),
   duration |-> Zero]

Step_delete(id) ==
  [type |-> "DELETE_SPRITE", spriteId |-> id, duration |-> Zero]

\* one step of every type that names a sprite, for the sprite id
TargetedSteps(id) ==
  { [type |-> "SAY", spriteId |-> id, message |-> "hi", duration |-> Zero],
    [type |-> "CLEAR_MESSAGE", spriteId |-> id, duration |-> Zero],
    [type |-> "MOVE_TO", spriteId |-> id, x |-> Num(80), y |-> Num(20),
     duration |-> Num(1000)],
    [type |-> "GO_TO", spriteId |-> id, x |-> Num(30), y |-> Num(40),
     duration |-> Num(1000)],
    [type |-> "SET_STYLE", spriteId |-> id, property |-> "color",
     value |-> "red", duration |-> Zero],
    [type |-> "SET_DATA", spriteId |-> id, key |-> "mood", value |-> "calm",
     duration |-> Zero],
    [type |-> "ROTATE_TO", spriteId |-> id, angle |-> Num(90),
     duration |-> Num(1000)],
    [type |-> "LOOK_AT", spriteId |-> id, x |-> Num(50), y |-> Num(80),
     duration |-> Num(1000)],
    [type |-> "AI_CHAT_REQUEST", spriteId |-> id, message |-> "hello",
     duration |-> Zero],
    Step_network(id),
    Step_reward(id, 2) }

\* a sprite created at (x, y), as the engines emit it: no velocity
Sprite_at(id, name, x, y) ==
  [type |-> "CREATE_SPRITE",
   sprite |-> [id |-> id, name |-> name, shape |-> "cube", x |-> x, y |-> y,
               vx |-> Zero, vy |-> Zero, rotation |-> Zero],
   duration |-> Zero]

\* the sequences of the drills: two sprites and at most MaxDrill steps that
\* create a network, reward or delete; two sprites, one of them deleted or
\* not, and one step that names it; two sprites, a dialogue request of the
\* first and its deletion; a gravity, a sprite inside the world, outside it
\* or at no number, a move out of the world and a wait
Drills ==
  LET pair    == <<Replay_sprite("s1", "B1"), Replay_sprite("s2", "B2")>>
      brains  == {Step_network("s1"), Step_reward("s1", 2),
                  Step_reward("s1", -1), Step_reward("s2", 2),
                  Step_delete("s1")}
      gravity == {Num(50), Num(-50), Zero}
      places  == {<<Num(50), Num(50)>>, <<Num(150), Num(-5)>>,
                  <<NaN, Num(50)>>}
  IN  {pair \o tail : tail \in SeqsUpTo(brains, MaxDrill)}
        \cup {pair \o gone \o <<t>> :
                gone \in {<<>>, <<Step_delete("s1")>>},
                t \in TargetedSteps("s1")}
        \cup {pair \o <<[type |-> "AI_CHAT_REQUEST", spriteId |-> "s1",
                          message |-> "hello", duration |-> Zero],
                         Step_delete("s1")>>}
        \cup {<< [type |-> "SET_GRAVITY", strength |-> g, duration |-> Zero],
                 Sprite_at("s1", "B1", xy[1], xy[2]),
                 [type |-> "MOVE_TO", spriteId |-> "s1", x |-> Num(120),
                  y |-> Num(130), duration |-> Num(1000)],
                 [type |-> "WAIT", duration |-> Num(1000)] >> :
                g \in gravity, xy \in places}

\* the player after the compile of the sequence stepList and its render:
\* paused at index 0 on the preview
Compiled(stepList) ==
  /\ executionSteps = stepList
  /\ currentStep = 0
  /\ isRunning = FALSE
  /\ isExecuting = FALSE
  /\ gameState = replayWorld(stepList)
  /\ gameChanged = FALSE
  /\ rendered = [currentStep |-> 0, isRunning |-> FALSE,
                 isExecuting |-> FALSE,
                 seen |-> seenSprites(gameState.sprites),
                 length |-> Len(stepList)]
  /\ renderDue = "no"
  /\ callbacks = EmptyBag
  /\ awaits = EmptyBag
  /\ problems = <<>>
  /\ lastLog = Log_replayReady
  /\ lastEvent = "render"

\* a drill is stepped through by hand, or played after some presses of the
\* step button
DrillStart ==
  \E d \in Drills :
    \/ Compiled(d)
    \/ \E stepsDone \in 0..(Len(d) - 1) :
         /\ \A n \in 1..stepsDone : d[n].type # "AI_CHAT_REQUEST"
         /\ PlayPressed(d, stepsDone)

DrillInit == ParserInit /\ WorldIdle /\ DrillStart

\* the step button, the renders, and the timers, animation frames and
\* dialogue calls of the running loop; no new run, no play or stop button
DrillNext ==
  \/ handleStepForward
  \/ Render
  \/ TimeoutFires
  \/ FrameFires
  \/ ChatReply
  \/ ChatError

DrillSpec == DrillInit /\ [][DrillNext]_vars

\* the calls a script makes between the creation of bot and its last line
MaxMoves == 2

\* the scripts that are parsed whole: an import line, the creation of bot,
\* at most MaxMoves lines that create target or move and turn bot, and a last
\* line that calls or prints
Scripts ==
  LET openers == {Pos(L_import_ai), Pos(L_import_ai_neurons)}
      makers  == {Pos(L_bot), Pos(L_bot2)}
      movers  == {Pos(L_target), Pos(L_move), Pos(L_move0), Pos(L_goto3),
                  Pos(L_botrot)}
      closers == {Pos(L_gotodotted), Pos(L_lookdotted), Pos(L_network),
                  Pos(L_reward), Pos(L_rewardbare), Pos(L_botnetwork),
                  Pos(L_botreward), Pos(L_botrewardbare), Pos(L_printpos),
                  Pos(L_printposjs), Pos(L_printunbound), Pos(L_printnoprop),
                  Pos(L_printabsent), Pos(L_printempty), Pos(L_printpadded),
                  Pos(L_printspace)}
  IN  {<<o, m>> \o mid \o <<c>> :
         o \in openers, m \in makers, mid \in SeqsUpTo(movers, MaxMoves),
         c \in closers}

\* parseUniversalCode is called once on a script of Scripts
ScriptStart ==
  /\ source \in Scripts
  /\ run = 0
  /\ i = 0
  /\ steps = <<>>
  /\ variables = <<>>
  /\ spriteNames = {}
  /\ importedLibraries = {}
  /\ usedIds = {}
  /\ pc = "parsing"
  /\ result = NoResult
  /\ firstResult = NoResult

ScriptInit == ScriptStart /\ WorldIdle /\ PlayerIdle

\* the loop reads the next line of the script
ScriptLine ==
  /\ pc = "parsing"
  /\ run = 0
  /\ i < Len(source)
  /\ \E id \in IdChoices(source[i + 1]) : LoopBody(source[i + 1], id)
  /\ UNCHANGED <<source, run, firstResult>>
  /\ UNCHANGED <<worldVars, playerVars>>

ScriptNext == ScriptLine \/ ParseReturn

ScriptSpec == ScriptInit /\ [][ScriptNext]_vars

\* the lines of a script between its opening and its end, when the script
\* is parsed in both spellings
MaxCalls == 2

\* the scripts that are parsed in both spellings: the imports of the five
\* libraries, the creation of bot, and then either at most MaxCalls lines
\* that create foe or call a method of a sprite or of a library, or the
\* creation of a zone, of a prop or of both, or one timed command given
\* negative seconds
RespellScripts ==
  LET opening == <<Pos(L_import_ai_world), Pos(L_import_rest), Pos(L_bot)>>
      calls   == {Pos(L_foe2), Pos(L_say1), Pos(L_chat), Pos(L_goto25),
                  Pos(L_move0), Pos(L_rot05), Pos(L_look025), Pos(L_style3),
                  Pos(L_wait15), Pos(L_background), Pos(L_gravity),
                  Pos(L_sound), Pos(L_network), Pos(L_reward)}
      makes   == {<<Pos(L_zone)>>, <<Pos(L_prop)>>,
                  <<Pos(L_zone), Pos(L_prop)>>}
      timed   == {<<Pos(L_saynegative)>>, <<Pos(L_waitnegative)>>,
                  <<Pos(L_movenegative)>>, <<Pos(L_stylenegative)>>}
  IN  {opening \o body :
         body \in SeqsUpTo(calls, MaxCalls) \cup makes \cup timed}

\* parseUniversalCode is called on a script of RespellScripts
RespellStart ==
  /\ source \in RespellScripts
  /\ run = 0
  /\ i = 0
  /\ steps = <<>>
  /\ variables = <<>>
  /\ spriteNames = {}
  /\ importedLibraries = {}
  /\ usedIds = {}
  /\ pc = "parsing"
  /\ result = NoResult
  /\ firstResult = NoResult

RespellInit == RespellStart /\ WorldIdle /\ PlayerIdle

\* parseUniversalCode is called on the same script with every line in its
\* other spelling (run 3)
ParseRespelt ==
  /\ pc = "returned"
  /\ run = 0
  /\ run' = 3
  /\ source' = [n \in 1..Len(source) |-> Twin(source[n])]
  /\ firstResult' = result
  /\ i' = 0
  /\ steps' = <<>>
  /\ variables' = <<>>
  /\ spriteNames' = {}
  /\ importedLibraries' = {}
  /\ usedIds' = {}
  /\ pc' = "parsing"
  /\ result' = NoResult
  /\ UNCHANGED <<worldVars, playerVars>>

\* the loop reads the next line of the respelt script
RespeltLine ==
  /\ pc = "parsing"
  /\ run = 3
  /\ i < Len(source)
  /\ \E id \in IdChoices(source[i + 1]) : LoopBody(source[i + 1], id)
  /\ UNCHANGED <<source, run, firstResult>>
  /\ UNCHANGED <<worldVars, playerVars>>

RespellNext == ScriptLine \/ ParseReturn \/ ParseRespelt \/ RespeltLine

RespellSpec == RespellInit /\ [][RespellNext]_vars

(***************************************************************************)
(* executeUniversalCode (src/game/universal_engine.ts), for a language of  *)
(* the named style whose configuration is that of dart.  It shares the     *)
(* parser's variables: source, i (the index of forEach), steps,            *)
(* spriteNames, usedIds (the ids nanoid has returned), pc, and result,     *)
(* whose problems field holds the problems pushed so far.                  *)
(***************************************************************************)
\* LANG_CONFIGS.dart
config ==
  [style |-> "named", apiObject |-> <<"a", "i">>,
   spriteClass |-> <<"S", "p", "r", "i", "t", "e">>, newKeyword |-> <<>>,
   separator |-> "."]

RECURSIVE IndexFrom(_, _, _)
\* the first position from p on that holds character c; 0 when there is none
IndexFrom(s, p, c) ==
  IF p > Len(s) THEN 0
  ELSE IF s[p] = c THEN p
  ELSE IndexFrom(s, p + 1, c)

\* end of the value alternatives  "([^"]*)" | '([^']*)' | ([\d.-]+)  at
\* position r; 0 when none matches
NamedValueEnd(s, r) ==
  IF r > Len(s) THEN 0
  ELSE IF s[r] \in Quote /\ IndexFrom(s, r + 1, s[r]) > 0
  THEN IndexFrom(s, r + 1, s[r])
  ELSE IF RunEnd(s, r, NumChar) >= r THEN RunEnd(s, r, NumChar)
  ELSE 0

\* what a match stores: numVal as the text parseFloat reads, or the text
\* between the quotes
NamedValue(s, r, v) ==
  IF s[r] \in Quote THEN [num |-> FALSE, text |-> Slice(s, r + 1, v - 1)]
  ELSE [num |-> TRUE, text |-> Slice(s, r, v)]

RECURSIVE ExtractNamedFrom(_, _, _)
\* the exec loop of extractNamedArgs over
\*   /(\w+)\s*[:=]\s*("([^"]*)"|'([^']*)'|([\d.-]+))/g     from position p
ExtractNamedFrom(s, p, args) ==
  IF p > Len(s) THEN args
  ELSE IF s[p] \notin WordChar THEN ExtractNamedFrom(s, p + 1, args)
  ELSE LET e == RunEnd(s, p, WordChar)
           q == RunEnd(s, e + 1, Space) + 1
           r == RunEnd(s, q + 1, Space) + 1
           v == IF q <= Len(s) /\ s[q] \in {":", "="}
                THEN NamedValueEnd(s, r) ELSE 0
       IN  IF v > 0
           THEN ExtractNamedFrom(s, v + 1,
                  PutArg(args, Str(Slice(s, p, e)), NamedValue(s, r, v)))
           ELSE ExtractNamedFrom(s, e + 1, args)

extractNamedArgs(argString) == ExtractNamedFrom(argString, 1, <<>>)

\* args[key] is neither missing nor undefined (stringVal1 || stringVal2 is
\* undefined for an empty string)
Defined(args, key) ==
  \E k \in 1..Len(args) :
    /\ args[k].key = key
    /\ args[k].val.num \/ args[k].val.text # <<>>

\* args[key] when it is defined: parseFloat(numVal) or the string
Value(args, key) ==
  LET Of(v) == IF v.num THEN ParseFloat(v.text) ELSE Str(v.text)
  IN  Of(args[CHOOSE k \in 1..Len(args) : args[k].key = key].val)

\* !args[key] : undefined, 0 or NaN
Falsy(args, key) ==
  \/ ~Defined(args, key)
  \/ /\ args[CHOOSE k \in 1..Len(args) : args[k].key = key].val.num
     /\ Value(args, key) \in {Zero, NaN}

\* args[key] ?? fallback
ValueOr(args, key, fallback) ==
  IF Defined(args, key) THEN Value(args, key) ELSE fallback

\* the position at which the api object stands in a creation whose
\* identifier ends at e:  \s*[:=]*\s*(?:\s+)?  skipped
ApiAt(line, e) ==
  RunEnd(line, RunEnd(line, RunEnd(line, e + 1, Space) + 1, {":", "="}) + 1,
         Space) + 1

\* (\w+)\s*[:=]*\s*(?:\s+)?ai.Sprite\((.*?)\)  matches with its identifier
\* at s..e; the separator of the configuration is an unescaped '.', which
\* stands for any character
CreationAt(line, s, e) ==
  LET Lit(a) ==
        /\ StartsWithAt(line, a, config.apiObject)
        /\ a + 2 <= Len(line)
        /\ StartsWithAt(line, a + 3, config.spriteClass \o <<"(">>)
        /\ IndexFrom(line, a + 10, ")") > 0
  IN  /\ \A k \in s..e : line[k] \in WordChar
      /\ Lit(ApiAt(line, e))

\* line.match(creationPattern): the leftmost match, its identifier as long
\* as it can be; g1 is varName, g2 argString
creationPattern_match(line) ==
  LET Found(s, e, a) ==
        Match(Slice(line, s, e),
              Slice(line, a + 10, IndexFrom(line, a + 10, ")") - 1), <<>>)
      Longest(s) ==
        CHOOSE e \in s..Len(line) :
          /\ CreationAt(line, s, e)
          /\ \A f \in (e + 1)..Len(line) : ~CreationAt(line, s, f)
      From(s) == Found(s, Longest(s), ApiAt(line, Longest(s)))
      starts == {s \in 1..Len(line) :
                   \E e \in s..Len(line) : CreationAt(line, s, e)}
  IN  IF starts = {} THEN NoMatch
      ELSE From(CHOOSE s \in starts : \A o \in starts : s <= o)

\* (names)(?:\.|->)(\w+)\((.*?)\)  matches at position s with the name n
MethodAt(line, s, n) ==
  LET b == s + Len(n)
      Rest(m) ==
        /\ m >= 1
        /\ RunEnd(line, m, WordChar) >= m
        /\ RunEnd(line, m, WordChar) + 1 <= Len(line)
        /\ line[RunEnd(line, m, WordChar) + 1] = "("
        /\ IndexFrom(line, RunEnd(line, m, WordChar) + 2, ")") > 0
  IN  /\ StartsWithAt(line, s, n)
      /\ b <= Len(line)
      /\ \/ line[b] = "." /\ Rest(b + 1)
         \/ StartsWithAt(line, b, <<"-", ">">>) /\ Rest(b + 2)

\* line.match(methodCallPattern) for the names of spriteNames: the leftmost
\* match; g1 is varName, g2 methodName, g3 argString
methodCallPattern_match(line, names) ==
  LET Found(n, m, w) ==
        Match(n, Slice(line, m, w),
              Slice(line, w + 2, IndexFrom(line, w + 2, ")") - 1))
      With(s, n) ==
        Found(n, IF line[s + Len(n)] = "." THEN s + Len(n) + 1
                 ELSE s + Len(n) + 2,
              RunEnd(line, IF line[s + Len(n)] = "." THEN s + Len(n) + 1
                           ELSE s + Len(n) + 2, WordChar))
      From(s) == With(s, CHOOSE n \in names : MethodAt(line, s, n))
      starts == {s \in 1..Len(line) : \E n \in names : MethodAt(line, s, n)}
  IN  IF starts = {} THEN NoMatch
      ELSE From(CHOOSE s \in starts : \A o \in starts : s <= o)

\* `Sprite creation on line ${index + 1} is missing a name.`
Msg_MissingName(n) ==
  <<"S", "p", "r", "i", "t", "e", " ", "c", "r", "e", "a", "t", "i", "o",
    "n", " ", "o", "n", " ", "l", "i", "n", "e", " ">>
    \o NatToChars(n) \o
  <<" ", "i", "s", " ", "m", "i", "s", "s", "i", "n", "g", " ", "a", " ",
    "n", "a", "m", "e", ".">>

\* `Sprite with name '${name}' already exists.`
Msg_NameExists(name) ==
  <<"S", "p", "r", "i", "t", "e", " ", "w", "i", "t", "h", " ", "n", "a",
    "m", "e", " ", "'">>
    \o name \o
  <<"'", " ", "a", "l", "r", "e", "a", "d", "y", " ", "e", "x", "i", "s",
    "t", "s", ".">>

\* what one call of the forEach callback leaves: steps, spriteNames and the
\* problems it pushed
Left(stepList, names, pushed) ==
  [steps |-> stepList, spriteNames |-> names, problems |-> pushed]

\* the creation branch (lines 66-90) for the match cm
Creation(cm, index, stepList, names, id) ==
  LET Make(args) ==
        IF Falsy(args, "name")
        THEN Left(stepList, names,
                  <<[line |-> index + 1, message |-> Msg_MissingName(index + 1)]>>)
        ELSE IF /\ ~args[CHOOSE k \in 1..Len(args) : args[k].key = "name"].val.num
                /\ args[CHOOSE k \in 1..Len(args) : args[k].key = "name"].val.text
                     \in names
        THEN Left(stepList, names,
                  <<[line |-> index + 1,
                     message |->
                       Msg_NameExists(
                         args[CHOOSE k \in 1..Len(args) :
                                args[k].key = "name"].val.text)]>>)
        ELSE Left(Append(stepList,
                    [type |-> "CREATE_SPRITE",
                     sprite |->
                       [id |-> Str(id), name |-> Value(args, "name"),
                        shape |-> IF Falsy(args, "shape") THEN "cube"
                                  ELSE Value(args, "shape"),
                        x |-> ValueOr(args, "x", Num(50)),
                        y |-> ValueOr(args, "y", Num(50)),
                        vx |-> Zero, vy |-> Zero, rotation |-> Zero,
                        styles |-> <<>>, data |-> <<>>],
                     duration |-> Zero]),
                  names \cup {cm.g1}, <<>>)
  IN  Make(extractNamedArgs(cm.g2))

\* steps.find(s => s.type === 'CREATE_SPRITE' && spriteNames.has(varName)):
\* varName comes from the names of spriteNames, so the second condition
\* holds for every step
spriteCreationStep(stepList, names, varName) ==
  LET found == {n \in 1..Len(stepList) :
                  stepList[n].type = "CREATE_SPRITE" /\ varName \in names}
  IN  IF found = {} THEN <<>>
      ELSE <<stepList[CHOOSE n \in found : \A o \in found : n <= o]>>

\* the GO_TO step, with the fields x and y when the arguments are defined
GoToStep(spriteId, args) ==
  LET base == [type |-> "GO_TO", spriteId |-> spriteId,
               duration |-> Times1000(ValueOr(args, "speed", Num(2)))]
      withX == IF Defined(args, "x")
               THEN [x |-> Value(args, "x")] @@ base ELSE base
  IN  IF Defined(args, "y") THEN [y |-> Value(args, "y")] @@ withX ELSE withX

\* the switch on methodName (lines 108-133)
MethodSteps(methodName, spriteId, args) ==
  CASE methodName = "say" ->
         <<[type |-> "SAY", spriteId |-> spriteId,
            message |-> ValueOr(args, "message", ""), duration |-> Zero],
           [type |-> "WAIT",
            duration |-> Times1000(ValueOr(args, "duration", Num(2)))],
           [type |-> "CLEAR_MESSAGE", spriteId |-> spriteId,
            duration |-> Zero]>>
    [] methodName = "go_to" -> <<GoToStep(spriteId, args)>>
    [] methodName = "create_network" ->
         <<[type |-> "SPRITE_CREATE_NETWORK", spriteId |-> spriteId,
            duration |-> Zero]>>
    [] methodName = "reward" ->
         <<[type |-> "SPRITE_REWARD", spriteId |-> spriteId,
            value |-> ValueOr(args, "value", Num(1)), duration |-> Zero]>>
    [] OTHER -> <<>>

\* the method call branch (lines 93-135) for the match mm
MethodCall(mm, stepList, names) ==
  LET Emit(created) ==
        IF created = <<>> THEN Left(stepList, names, <<>>)
        ELSE Left(stepList \o MethodSteps(Str(mm.g2), created[1].sprite.id,
                                          extractNamedArgs(mm.g3)),
                  names, <<>>)
  IN  Emit(spriteCreationStep(stepList, names, mm.g1))

\* the callback of lines.forEach for one line, nanoid returning id
forEachLine(line, index, stepList, names, id) ==
  LET Call(mm) ==
        IF names # {} /\ mm.ok THEN MethodCall(mm, stepList, names)
        ELSE Left(stepList, names, <<>>)
      Try(cm) ==
        IF cm.ok THEN Creation(cm, index, stepList, names, id)
        ELSE Call(IF names = {} THEN NoMatch
                  ELSE methodCallPattern_match(line, names))
  IN  Try(creationPattern_match(line))

\* the line calls nanoid
CallsNanoid(line, names) ==
  LET Passes(args) ==
        /\ ~Falsy(args, "name")
        /\ \/ args[CHOOSE k \in 1..Len(args) : args[k].key = "name"].val.num
           \/ args[CHOOSE k \in 1..Len(args) : args[k].key = "name"].val.text
                \notin names
      Of(cm) == cm.ok /\ Passes(extractNamedArgs(cm.g2))
  IN  Of(creationPattern_match(line))

\* the scripts given to executeUniversalCode: the creation of bot or foe,
\* then at most MaxCalls lines that create a sprite or call a method of bot
\* or of foe
UniversalScripts ==
  LET makers == {Pos(L_bot), Pos(L_foe2)}
      others == {Pos(L_bot), Pos(L_foe2), Pos(L_noname), Pos(L_say1),
                 Pos(L_goto25), Pos(L_botnetwork), Pos(L_botreward),
                 Pos(L_foesay), Pos(L_foegoto), Pos(L_foenetwork),
                 Pos(L_foereward), Pos(L_rot05)}
  IN  {<<m>> \o body : m \in makers, body \in SeqsUpTo(others, MaxCalls)}

\* executeUniversalCode is called on a script of UniversalScripts (run 4)
UniversalStart ==
  /\ source \in UniversalScripts
  /\ run = 4
  /\ i = 0
  /\ steps = <<>>
  /\ variables = <<>>
  /\ spriteNames = {}
  /\ importedLibraries = {}
  /\ usedIds = {}
  /\ pc = "parsing"
  /\ result = NoResult
  /\ firstResult = NoResult

UniversalInit == UniversalStart /\ WorldIdle /\ PlayerIdle

\* lines.forEach calls its callback on the next line
UniversalLine ==
  /\ pc = "parsing"
  /\ run = 4
  /\ i < Len(source)
  /\ \E id \in (IF CallsNanoid(Lines[source[i + 1]], spriteNames)
                THEN Ids \ usedIds ELSE {CHOOSE id \in Ids : TRUE}) :
       LET Take(out) ==
             /\ steps' = out.steps
             /\ spriteNames' = out.spriteNames
             /\ result' = [result EXCEPT !.problems = @ \o out.problems]
             /\ usedIds' = IF Len(out.steps) > Len(steps)
                              /\ out.steps[Len(out.steps)].type = "CREATE_SPRITE"
                           THEN usedIds \cup {id} ELSE usedIds
       IN  Take(forEachLine(Lines[source[i + 1]], i, steps, spriteNames, id))
  /\ i' = i + 1
  /\ UNCHANGED <<source, run, variables, importedLibraries, pc, firstResult>>
  /\ UNCHANGED <<worldVars, playerVars>>

\* forEach is over: return { problems, steps }
UniversalReturn ==
  /\ pc = "parsing"
  /\ run = 4
  /\ i = Len(source)
  /\ result' = [result EXCEPT !.steps = steps]
  /\ pc' = "returned"
  /\ UNCHANGED <<source, run, i, steps, variables, spriteNames,
                 importedLibraries, usedIds, firstResult>>
  /\ UNCHANGED <<worldVars, playerVars>>

UniversalNext == UniversalLine \/ UniversalReturn

UniversalSpec == UniversalInit /\ [][UniversalNext]_vars

Next == ParseLine \/ RestOfScript \/ ParseReturn \/ ParseAgain

Spec == Init /\ [][Next]_vars

(***************************************************************************)
(* Properties of parseUniversalCode.                                       *)
(***************************************************************************)

\* the line the loop has just gone through
LastLine == source[i]

\* lines that throw wherever they stand: import of an unknown library, a
\* sprite without a name, ai.wait with a keyword, an unknown method, a
\* coordinate that is no number, a line that is no command, and a call cut
\* short at a # inside its string argument
AlwaysInvalid ==
  {Pos(L_import_math), Pos(L_noname), Pos(L_waitkw), Pos(L_jump),
   Pos(L_gototarget), Pos(L_garbage), Pos(L_hexbackground)}

\* C1: a parse that returns problems returns exactly one, on the physical
\* line at which the loop stopped (blank and comment lines counted), with an
\* empty step list, and no line after it has been gone through; a script
\* holding an invalid line at position k returns a problem on a line <= k
C1_AbortOnFirstError ==
  pc = "returned" =>
    /\ result.problems # <<>> =>
         /\ Len(result.problems) = 1
         /\ result.problems[1].line = i
         /\ result.steps = <<>>
         /\ i <= Len(source)
    /\ \A k \in 1..Len(source) :
         source[k] \in AlwaysInvalid =>
           /\ result.problems # <<>>
           /\ result.problems[1].line <= k

\* a script of three lines whose second line is the first invalid one, after
\* a comment line, parsed to the end
C1_Witness ==
  /\ pc = "returned"
  /\ run = 2
  /\ source = <<Pos(L_comment), Pos(L_garbage), Pos(L_say)>>
  /\ result.problems # <<>>
  /\ result.problems[1].line = 2

(***************************************************************************)
(* What the lines of the vocabulary say, read off their text.              *)
(***************************************************************************)

\* the display name a construction line gives its sprite
NameOf ==
  (Pos(L_bot) :> "B1") @@ (Pos(L_foe) :> "B1") @@ (Pos(L_bot2) :> "B2")

\* the identifier on the left of a construction line
VarOf ==
  (Pos(L_bot) :> "bot") @@ (Pos(L_foe) :> "foe") @@ (Pos(L_bot2) :> "bot")
    @@ (Pos(L_noname) :> "foe")

\* the library a construction or library call line uses
LibOf ==
  (Pos(L_bot) :> "ai") @@ (Pos(L_foe) :> "ai") @@ (Pos(L_bot2) :> "ai")
    @@ (Pos(L_noname) :> "ai") @@ (Pos(L_wait15) :> "ai")
    @@ (Pos(L_waitkw) :> "ai") @@ (Pos(L_background) :> "world")
    @@ (Pos(L_gravity) :> "physics") @@ (Pos(L_sound) :> "sound")
    @@ (Pos(L_reward) :> "neurons")

\* the libraries an import line names
ImportsOf ==
  (Pos(L_import_ai) :> {"ai"}) @@ (Pos(L_import_ai_world) :> {"ai", "world"})
    @@ (Pos(L_import_rest) :> {"physics", "sound", "neurons"})

\* the libraries imported by the first n lines of src
Imported(src, n) ==
  UNION {ImportsOf[src[j]] : j \in {j \in 1..n : src[j] \in DOMAIN ImportsOf}}

\* the seconds a timed line gives (or leaves to the default), in milliseconds
ExpectedMs ==
  (Pos(L_say1) :> 1000) @@ (Pos(L_say) :> 2000)
    @@ (Pos(L_goto25) :> 2500) @@ (Pos(L_goto) :> 2000)
    @@ (Pos(L_move0) :> 0) @@ (Pos(L_move) :> 1000)
    @@ (Pos(L_rot05) :> 500) @@ (Pos(L_rot) :> 1000)
    @@ (Pos(L_look025) :> 250) @@ (Pos(L_look) :> 500)
    @@ (Pos(L_style3) :> 3000) @@ (Pos(L_wait15) :> 1500)

\* the type of the timed step a timed line emits
TimedType ==
  (Pos(L_say1) :> "WAIT") @@ (Pos(L_say) :> "WAIT")
    @@ (Pos(L_goto25) :> "GO_TO") @@ (Pos(L_goto) :> "GO_TO")
    @@ (Pos(L_move0) :> "MOVE_TO") @@ (Pos(L_move) :> "MOVE_TO")
    @@ (Pos(L_rot05) :> "ROTATE_TO") @@ (Pos(L_rot) :> "ROTATE_TO")
    @@ (Pos(L_look025) :> "LOOK_AT") @@ (Pos(L_look) :> "LOOK_AT")
    @@ (Pos(L_style3) :> "SET_STYLE") @@ (Pos(L_wait15) :> "WAIT")

\* the library whose handler (or constructor) emits a step of this type
HandlerLibrary(type) ==
  CASE type \in {"SET_BACKGROUND", "CREATE_ZONE"} -> "world"
    [] type = "SET_GRAVITY" -> "physics"
    [] type = "PLAY_SOUND" -> "sound"
    [] type \in {"CREATE_NETWORK", "REWARD_SPRITE"} -> "neurons"
    [] type \in {"CREATE_PROP", "CREATE_SPRITE", "WAIT"} -> "ai"
    [] OTHER -> "none"

Chars_alreadyExists == <<"a", "l", "r", "e", "a", "d", "y", " ", "e", "x", "i", "s", "t", "s">>
Chars_hasNoMethod == <<"h", "a", "s", " ", "n", "o", " ", "m", "e", "t", "h", "o", "d">>
Chars_notImported == <<"n", "o", "t", " ", "i", "m", "p", "o", "r", "t", "e", "d">>

\* the step has gone through one more line of the script
LineDone == i' = i + 1

\* the step returned one problem, on the line it went through, and no steps
RejectedHere ==
  /\ pc' = "returned"
  /\ Len(result'.problems) = 1
  /\ result'.problems[1].line = i'
  /\ result'.steps = <<>>

\* line n of src constructs a sprite under a display name that an earlier
\* construction line of src has used
RepeatsName(src, n) ==
  /\ src[n] \in DOMAIN NameOf
  /\ \E j \in 1..(n - 1) :
       src[j] \in DOMAIN NameOf /\ NameOf[src[j]] = NameOf[src[n]]

\* two CREATE_SPRITE steps of ss carry the same name
SameNameTwice(ss) ==
  \E a, b \in 1..Len(ss) :
    /\ a < b
    /\ ss[a].type = "CREATE_SPRITE" /\ ss[b].type = "CREATE_SPRITE"
    /\ ss[a].sprite.name = ss[b].sprite.name

\* C2 (as the code has it): a construction under a display name already
\* given on an earlier line is rejected on its own line; the message contains
\* "already exists" when the identifier on its left is not yet bound (when it
\* is, the message is the one about the variable); and no returned step
\* list holds two CREATE_SPRITE steps with the same name
C2_DuplicateName ==
  [][/\ ~SameNameTwice(result'.steps)
     /\ (LineDone /\ RepeatsName(source', i')) =>
          /\ RejectedHere
          /\ VarOf[source'[i']] \notin DOMAIN variables =>
               Contains(result'.problems[1].message, Chars_alreadyExists)]_vars

\* C2 as stated: the message contains "already exists" whatever the two
\* identifiers are
C2_Original ==
  [][(LineDone /\ RepeatsName(source', i')) =>
       /\ RejectedHere
       /\ Contains(result'.problems[1].message, Chars_alreadyExists)]_vars

\* the second construction, under another identifier, is rejected on line 3
C2_Witness ==
  /\ pc = "returned"
  /\ source = <<Pos(L_import_ai), Pos(L_bot), Pos(L_foe)>>
  /\ Len(result.problems) = 1
  /\ result.problems[1].line = 3
  /\ Contains(result.problems[1].message, Chars_alreadyExists)

\* C3: a construction or a library call on a line before which its library
\* has not been imported is rejected on that line; while the parse goes on
\* the import set is what the lines so far imported, and every step a
\* library handler (or the constructor) emitted has its library in it
C3_ImportGating ==
  [][LineDone =>
       /\ (/\ source'[i'] \in DOMAIN LibOf
           /\ LibOf[source'[i']] \notin Imported(source', i)) => RejectedHere
       /\ pc' = "parsing" =>
            /\ importedLibraries' = Imported(source', i')
            /\ \A j \in 1..Len(steps') :
                 HandlerLibrary(steps'[j].type)
                   \in importedLibraries' \cup {"none"}]_vars

\* world.set_background on line 2, after an import of ai alone
C3_Witness ==
  /\ pc = "returned"
  /\ source = <<Pos(L_import_ai), Pos(L_background)>>
  /\ result.problems # <<>>
  /\ result.problems[1].line = 2
  /\ Contains(result.problems[1].message, Chars_notImported)
  /\ "world" \notin importedLibraries

SaySteps(id, ms) ==
  << [type |-> "SAY", spriteId |-> id, message |-> "hi", duration |-> Num(0)],
     [type |-> "WAIT", duration |-> Num(ms)],
     [type |-> "CLEAR_MESSAGE", spriteId |-> id, duration |-> Num(0)] >>

\* the script import ai / bot = ai.Sprite(name: "B1", x: 10, y: 10) /
\* bot.say(message: "hi", duration: 1)
ExampleScript == <<Pos(L_import_ai), Pos(L_bot), Pos(L_say1)>>

\* what the example script returns when nanoid gives id
ExampleResult(id) ==
  [steps |->
     << [type |-> "CREATE_SPRITE",
         sprite |-> [id |-> Str(id), name |-> "B1", shape |-> "cube",
                     x |-> Num(10), y |-> Num(10), vx |-> Num(0),
                     vy |-> Num(0), rotation |-> Num(0)],
         duration |-> Num(0)] >> \o SaySteps(Str(id), 1000),
   problems |-> <<>>]

C7_Determinism ==
  (run = 2 /\ pc = "returned") => result = firstResult

\* the two parses of a script that constructs a sprite returned different
\* step lists
C7_Witness ==
  /\ run = 2
  /\ pc = "returned"
  /\ source = <<Pos(L_import_ai), Pos(L_bot)>>
  /\ result.problems = <<>>
  /\ result # firstResult

\* C8: a construction whose identifier is already bound is rejected on its
\* line, and within a parse an identifier of the binding table stays in it
\* and keeps denoting the sprite with the same id
C8_BoundOnce ==
  [][/\ (/\ LineDone
         /\ source'[i'] \in DOMAIN VarOf
         /\ VarOf[source'[i']] \in DOMAIN variables) => RejectedHere
     /\ run' = run =>
          \A v \in DOMAIN variables :
            v \in DOMAIN variables' /\ variables'[v].id = variables[v].id]_vars

\* bot is bound on line 2 and constructed again, under another display name,
\* on line 3
C8_Witness ==
  /\ pc = "returned"
  /\ source = <<Pos(L_import_ai), Pos(L_bot), Pos(L_bot2)>>
  /\ "bot" \in DOMAIN variables
  /\ Len(result.problems) = 1
  /\ result.problems[1].line = 3

\* C9 as stated: the one-line script bot.say(message: "hi") returns no
\* steps and one problem, on line 1, whose message contains "has no method"
\* or "not imported"
C9_Original ==
  (pc = "returned" /\ source = <<Pos(L_say)>>) =>
    /\ result.steps = <<>>
    /\ Len(result.problems) = 1
    /\ result.problems[1].line = 1
    /\ \/ Contains(result.problems[1].message, Chars_hasNoMethod)
       \/ Contains(result.problems[1].message, Chars_notImported)

\* what the one-line script returns: one problem on line 1, no steps, and
\* the message of the final throw
C9_Witness ==
  /\ pc = "returned"
  /\ source = <<Pos(L_say)>>
  /\ result = Catch(1, Msg_InvalidSyntax)

(***************************************************************************)
(* Properties of parseWorldHTML and parseCode.                             *)
(***************************************************************************)

\* the elements of the vocabulary that carry the class prop, and the prop
\* each one describes, read off the element's attributes
IsPropElement == [k \in 1..4 |-> k \in {1, 2, 3}]

DescribedProp ==
  [k \in 1..3 |->
     CASE k = 1 -> [shape |-> "wall", x |-> [m |-> 10, e |-> 0],
                    y |-> [m |-> 20, e |-> 0], width |-> [m |-> 30, e |-> 0],
                    height |-> [m |-> 5, e |-> 0], backgroundColor |-> "#444"]
       [] k = 2 -> [shape |-> "rock", x |-> [m |-> 50, e |-> 0],
                    y |-> [m |-> 50, e |-> 0], width |-> [m |-> 10, e |-> 0],
                    height |-> [m |-> 10, e |-> 0], backgroundColor |-> ""]
       [] k = 3 -> [shape |-> "rock", x |-> [m |-> 50, e |-> 0],
                    y |-> [m |-> 50, e |-> 0], width |-> [m |-> 125, e |-> 1],
                    height |-> [m |-> 10, e |-> 0], backgroundColor |-> ""]]

\* the step is a CREATE_PROP step for the prop that element k describes
CreatesPropOf(step, k) ==
  /\ step.type = "CREATE_PROP"
  /\ step.duration = [m |-> 0, e |-> 0]
  /\ step.prop.shape = DescribedProp[k].shape
  /\ step.prop.x = DescribedProp[k].x
  /\ step.prop.y = DescribedProp[k].y
  /\ step.prop.width = DescribedProp[k].width
  /\ step.prop.height = DescribedProp[k].height
  /\ step.prop.styles.backgroundColor = DescribedProp[k].backgroundColor

\* the returned steps are one CREATE_PROP per element of props, in order,
\* followed by the steps of script
WorldThenScript(returned, props, script) ==
  /\ Len(returned) = Len(props) + Len(script)
  /\ \A n \in 1..Len(props) : CreatesPropOf(returned[n], props[n])
  /\ \A n \in 1..Len(script) : returned[Len(props) + n] = script[n]

\* parseCode has returned in a browser with a world.html in the file system
ReturnedWithWorld == wpc = "returned" /\ hasWorldFile /\ domParser

\* C6: when parseCode returns and the file system holds a world.html with N
\* prop elements (in a browser, where DOMParser exists), the returned steps
\* are N CREATE_PROP steps, one per prop element in document order, followed
\* by exactly the steps the script produced, whatever the script's language
\* and result (problems, partial steps, not runnable, transpilation error)
C6_WorldStepsFirst ==
  ReturnedWithWorld =>
    WorldThenScript(codeResult.steps,
                    SelectSeq(worldHtml, LAMBDA k : IsPropElement[k]),
                    scriptResult.steps)

\* parseCode has returned for a world.html with two prop elements and an
\* element that is not a prop, and a script that failed after its first step
C6_Witness ==
  /\ ReturnedWithWorld
  /\ Len(SelectSeq(worldHtml, LAMBDA k : IsPropElement[k])) = 2
  /\ \E n \in 1..Len(worldHtml) : ~IsPropElement[worldHtml[n]]
  /\ scriptResult.problems # <<>>
  /\ scriptResult.steps # <<>>
  /\ Len(codeResult.steps) = 3

(***************************************************************************)
(* Properties of the replay player.                                        *)
(***************************************************************************)

\* the sprites and props the creation steps of a sequence describe, as they
\* are at creation: no message, the position and rotation of the step
SpriteAsCreated(step) ==
  [id |-> step.sprite.id, name |-> step.sprite.name,
   shape |-> step.sprite.shape, x |-> step.sprite.x, y |-> step.sprite.y,
   vx |-> step.sprite.vx, vy |-> step.sprite.vy,
   rotation |-> step.sprite.rotation, message |-> <<>>, styles |-> <<>>,
   data |-> <<>>, brain |-> <<>>]

CreatedSprites(stepList) ==
  LET AsCreated(creations) ==
        [j \in DOMAIN creations |-> SpriteAsCreated(creations[j])]
  IN  AsCreated(SelectSeq(stepList, LAMBDA s : s.type = "CREATE_SPRITE"))

CreatedProps(stepList) ==
  LET PropsOf(creations) == [j \in DOMAIN creations |-> creations[j].prop]
  IN  PropsOf(SelectSeq(stepList, LAMBDA s : s.type = "CREATE_PROP"))

\* the colour of the last SET_BACKGROUND step of a sequence, or the initial
\* colour when it has none
BackgroundOf(stepList) ==
  LET ColourOf(settings) ==
        IF settings = <<>> THEN "#111827" ELSE settings[Len(settings)].color
  IN  ColourOf(SelectSeq(stepList, LAMBDA s : s.type = "SET_BACKGROUND"))

\* the stop button's handler has just run
AfterStop == lastEvent = "stop"

\* the player is not running and stands at index 0
Rewound == ~isRunning /\ currentStep = 0

LoopAdvances ==
  /\ lastEvent' \in {"render", "timeout", "frame"}
  /\ currentStep' = currentStep + 1

\* the player was running at its last render and still is, and has applied
\* the step before the index
RunningPast ==
  /\ rendered.isRunning
  /\ isRunning
  /\ currentStep > 0
  /\ currentStep <= Len(executionSteps)

\* C11 as stated: while running, the step after a step of duration d > 0 is
\* applied by the timer set for it and by nothing else, and the step after a
\* step of duration 0 is applied by the animation frame requested for it
C11_Original ==
  [][(RunningPast /\ LoopAdvances) =>
       lastEvent' = IF NumAbove(executionSteps[currentStep].duration, 0)
                    THEN "timeout" ELSE "frame"]_vars

\* a render of the running player found the index behind WAIT(1000) and its
\* effect applied CLEAR_MESSAGE at once; no timer is left
C11_Witness ==
  /\ lastEvent = "render"
  /\ executionSteps = Replay_say
  /\ rendered.isRunning
  /\ rendered.currentStep = 3
  /\ currentStep = 4
  /\ gameState.sprites[1].message = <<>>
  /\ \A c \in BagToSet(callbacks) : c.kind # "timeout"

\* C12 as stated: once the player is not running, a timer or animation-frame
\* callback changes neither the world nor the step index
C12_Original ==
  [][(~isRunning /\ lastEvent' \in {"timeout", "frame"}) =>
       (gameState' = gameState /\ currentStep' = currentStep)]_vars

\* the last render showed the player stopped at index 0, and an animation
\* frame requested during the replay has moved the index on since
C12_Witness ==
  /\ lastEvent = "frame"
  /\ executionSteps = Replay_say
  /\ ~rendered.isRunning
  /\ rendered.currentStep = 0
  /\ ~isRunning
  /\ currentStep > 0

\* the sequence after is the sequence before with SAY(receiver, reply, 0),
\* WAIT(4000), CLEAR_MESSAGE(receiver) inserted at the three positions behind
\* position at (from 0), where an AI_CHAT_REQUEST stands, the rest following
\* in order
InsertedBehind(before, after, at) ==
  /\ at >= 0
  /\ at < Len(before)
  /\ before[at + 1].type = "AI_CHAT_REQUEST"
  /\ \E receiver \in {"s1", "s2"} :
       after = SubSeq(before, 1, at + 1) \o responseSteps(receiver)
                 \o SubSeq(before, at + 2, Len(before))

\* C13 as stated: when a reply arrives the three steps are inserted behind
\* the AI_CHAT_REQUEST of the sequence, the steps behind it keep their order,
\* the index does not move backwards, and the index stands on the inserted
\* SAY, which is the next step to apply
C13_Original ==
  [][lastEvent' = "reply" =>
       /\ currentStep' >= currentStep
       /\ InsertedBehind(executionSteps, executionSteps', currentStep' - 1)]_vars

\* a reply has arrived after another script was compiled: its three steps
\* stand in a sequence that holds no AI_CHAT_REQUEST, and the index of the
\* rewound player stands behind them
C13_Witness ==
  /\ lastEvent = "reply"
  /\ \A n \in DOMAIN executionSteps :
       executionSteps[n].type # "AI_CHAT_REQUEST"
  /\ \E n \in DOMAIN executionSteps :
       /\ executionSteps[n].type = "SAY"
       /\ executionSteps[n].message = "reply"
  /\ rendered.currentStep = 0
  /\ currentStep = 3

\* the last render showed the player paused: not running, in the middle of
\* the sequence, and no command has been given since
PausedShown ==
  /\ ~rendered.isRunning
  /\ ~isRunning
  /\ ~rendered.isExecuting
  /\ ~isExecuting
  /\ rendered.currentStep > 0
  /\ rendered.currentStep < rendered.length
  /\ rendered.length = Len(executionSteps)

\* C14 as stated: a paused player keeps its step index, so that Resume goes
\* on with the step at that index: a timer or an animation frame that runs
\* while the player is paused leaves the index where the render showed it
C14_Original ==
  (PausedShown /\ lastEvent \in {"timeout", "frame"}) =>
    currentStep = rendered.currentStep

\* the player was paused behind SAY at index 2, and an animation frame of the
\* replay has applied CREATE_SPRITE a second time and moved the index back
\* to 1: Resume will apply SAY again
C14_Witness ==
  /\ PausedShown
  /\ lastEvent = "frame"
  /\ executionSteps = Replay_say
  /\ rendered.currentStep = 2
  /\ currentStep = 1
  /\ Len(gameState.sprites) > Len(rendered.seen)

\* the play button is pressed on a player the render shows finished
RunWhenFinished ==
  /\ lastEvent' = "toggle"
  /\ ~rendered.isRunning
  /\ rendered.currentStep >= Len(executionSteps)

\* the timer of the replay fires and the player becomes running
ReplayBegins == lastEvent' = "replay"

\* C16 as stated: Run on a finished player first sets the index to 0 and the
\* world to the preview of the sequence, the player not running yet; when the
\* player then becomes running, it does so at index 0 of that world, so that
\* the replay applies the steps from index 0
C16_Original ==
  [][/\ RunWhenFinished =>
          /\ ~isRunning'
          /\ currentStep' = 0
          /\ gameState' = replayWorld(executionSteps)
     /\ ReplayBegins =>
          /\ isRunning'
          /\ currentStep' = 0
          /\ gameState' = replayWorld(executionSteps)]_vars

\* the replay of a finished player has begun at index 1, behind a
\* CREATE_SPRITE that an animation frame of the first run applied once more
C16_Witness ==
  /\ lastEvent = "replay"
  /\ isRunning
  /\ ~rendered.isRunning
  /\ rendered.currentStep = 0
  /\ currentStep = 1
  /\ Len(gameState.sprites) = Len(rendered.seen) + 1

\* the caller of the rejected request goes on: the index stands behind the
\* request, and a running loop has requested the frame for the next step, or
\* has ended when the request was the last step
CallerGoesOn ==
  \E a \in BagToSet(awaits) :
    /\ awaits' = awaits (-) SetToBag({a})
    /\ currentStep' = a.k + 1
    /\ a.fn = "runNextStep" =>
         IF a.k + 1 < Len(executionSteps)
         THEN /\ isRunning' = isRunning
              /\ BagCardinality(callbacks') = BagCardinality(callbacks) + 1
              /\ \E c \in BagToSet(callbacks') : c.kind = "frame" /\ c.k = a.k
         ELSE ~isRunning'

\* C17: when the dialogue call of an applied AI_CHAT_REQUEST rejects, one
\* problem with line 0 is appended to the problems, the last log line is the
\* chat failure line, the sequence is left as it is, the caller goes on
\* behind the request, and the next render of a running player applies the
\* step at the index behind the request
C17_ChatFailure ==
  [][/\ lastEvent' = "error" =>
          /\ Len(problems') = Len(problems) + 1
          /\ SubSeq(problems', 1, Len(problems)) = problems
          /\ problems'[Len(problems')].line = 0
          /\ lastLog' = "Error: Gemini API call failed"
          /\ executionSteps' = executionSteps
          /\ CallerGoesOn
     /\ (/\ lastEvent = "error"
         /\ isRunning
         /\ currentStep < Len(executionSteps)
         /\ lastEvent' = "render") =>
          /\ gameState' = processStep(physicsTick(gameState),
                                      executionSteps[currentStep + 1])
          /\ executionSteps' = executionSteps]_vars

\* the request of the running player was rejected: there is one problem, on
\* line 0, the sequence is the parsed one, and the render that followed has
\* applied the MOVE_TO behind the request
C17_Witness ==
  /\ lastEvent = "render"
  /\ executionSteps = Replay_chat
  /\ problems = <<[line |-> 0, message |-> "Gemini API Error"]>>
  /\ lastLog = "Error: Gemini API call failed"
  /\ rendered.isRunning
  /\ rendered.currentStep = 3
  /\ currentStep = 4
  /\ gameState.sprites[FoundSprite(gameState, "s2")].x = [m |-> 80, e |-> 0]

\* the problems hold a problem of the parse: the last parse reported one
LastParseFailed ==
  \E n \in DOMAIN problems : problems[n].message # "Gemini API Error"

\* the steps and the sprites of the parse results that report a problem
BrokenSteps ==
  UNION {{r.steps[n] : n \in DOMAIN r.steps} :
           r \in {q \in ParseResults : q.problems # <<>>}}

BrokenSpriteIds ==
  {step.sprite.id : step \in {b \in BrokenSteps : b.type = "CREATE_SPRITE"}}

ParsedSequences ==
  {<<>>} \cup {r.steps : r \in {q \in ParseResults : q.problems = <<>>}}

\* C19 as stated: whatever was played, paused, stopped or replayed, the
\* sequence the player holds is, element for element, a sequence the parser
\* returned
C19_Original == executionSteps \in ParsedSequences

\* the player was stopped after a reply had arrived: the sequence to replay
\* holds the three steps of the reply behind the AI_CHAT_REQUEST, which the
\* parser did not return
C19_Witness ==
  /\ lastEvent = "stop"
  /\ currentStep = 0
  /\ Len(executionSteps) = Len(Replay_chat) + 3
  /\ SubSeq(executionSteps, 1, 3) = SubSeq(Replay_chat, 1, 3)
  /\ executionSteps[4].type = "SAY"
  /\ executionSteps[4].message = "reply"
  /\ executionSteps[7] = Replay_chat[4]

(***************************************************************************)
(* The hex colour of the guide's example.                                  *)
(***************************************************************************)

\* import ai, world / world.set_background(color="#0f172a")
HexScript == <<Pos(L_import_ai_world), Pos(L_hexbackground)>>

\* C20 as stated: after the import of world the line
\* world.set_background(color="#0f172a") parses without a problem and emits
\* exactly one SET_BACKGROUND step whose colour is the hex string: the # inside
\* the quoted string does not cut the line
C20_Original ==
  (pc = "returned" /\ source = HexScript) =>
    result = [steps |-> <<[type |-> "SET_BACKGROUND", color |-> "#0f172a",
                           duration |-> [m |-> 0, e |-> 0]]>>,
              problems |-> <<>>]

\* what the script returns: the line was cut at the #, what is left,
\* world.set_background(color=", is no command, and the parse ends with a
\* problem on line 2 and no steps
C20_Witness ==
  /\ pc = "returned"
  /\ source = HexScript
  /\ Analysis[Pos(L_hexbackground)].trimmedLine =
       SubSeq(L_hexbackground, 1, 28)
  /\ result = Catch(2, Msg_InvalidSyntax)

(***************************************************************************)
(* Properties of the playback left alone.                                  *)
(***************************************************************************)

\* the index stands at the end of the sequence and the player is not running
Finished == currentStep = Len(executionSteps) /\ ~isRunning

\* a render, a frame, a timer or a dialogue call is due and the bounds of the
\* model keep it from coming about
PlaybackCapped ==
  \/ renderDue # "no" /\ ~ENABLED Render
  \/ /\ renderDue # "now"
     /\ \E c \in BagToSet(callbacks) : c.kind = "frame"
     /\ ~ENABLED FrameFires
  \/ /\ renderDue # "now"
     /\ \E c \in BagToSet(callbacks) : c.kind = "timeout"
     /\ ~ENABLED TimeoutFires
  \/ /\ renderDue # "now"
     /\ awaits # EmptyBag
     /\ ~ENABLED (ChatReply \/ ChatError)

\* C15 as stated: a running player that is left alone, whose renders, timers,
\* animation frames and dialogue calls all come about, reaches the end of a
\* non-empty sequence and stops running (playbacks that the bounds of the
\* model cut short are not held against the statement)
C15_Original == <>(Finished \/ PlaybackCapped)

\* the player, resumed at index 1 of CREATE_SPRITE, SAY, WAIT, CLEAR_MESSAGE,
\* stands behind SAY once more: the frame requested after SAY has put the
\* index back from 3 to 2 while the timer of WAIT is queued
C15_Witness ==
  /\ executionSteps = Replay_say
  /\ lastEvent = "frame"
  /\ isRunning
  /\ rendered.currentStep = 2
  /\ currentStep = 2
  /\ \E c \in BagToSet(callbacks) : c.kind = "timeout" /\ c.k = 2
  /\ \E c \in BagToSet(callbacks) : c.kind = "frame" /\ c.k = 1

(***************************************************************************)
(* Properties of the scripts parsed whole.                                 *)
(***************************************************************************)

\* the script creates bot and then target and nothing else before its last
\* line
TargetBound ==
  /\ Len(source) = 4
  /\ source[2] = Pos(L_bot)
  /\ source[3] = Pos(L_target)

\* C21 as stated: with bot and target bound, bot.go_to(x=target.x,
\* y=target.y) and bot.look_at(x=target.x, y=target.y, speed=0.5) parse
\* without a problem, and the GO_TO or LOOK_AT step they emit, the last step
\* of the result, carries the x and y target has at that line, 80 and 85
C21_Original ==
  (/\ pc = "returned"
   /\ TargetBound
   /\ source[4] \in {Pos(L_gotodotted), Pos(L_lookdotted)}) =>
    /\ result.problems = <<>>
    /\ Len(result.steps) = 3
    /\ result.steps[3].type =
         (IF source[4] = Pos(L_gotodotted) THEN "GO_TO" ELSE "LOOK_AT")
    /\ result.steps[3].spriteId = result.steps[1].sprite.id
    /\ result.steps[3].x = Num(80)
    /\ result.steps[3].y = Num(85)

\* what the parse of import ai, bot, target, bot.go_to(x=target.x, y=target.y)
\* returns: parseArgs has kept the text target.x, which parseInt turns into
\* NaN, go_to throws, and the parse ends with a problem on line 4 and no
\* steps
C21_Witness ==
  /\ pc = "returned"
  /\ TargetBound
  /\ source[1] = Pos(L_import_ai)
  /\ source[4] = Pos(L_gotodotted)
  /\ Arg(Analysis[Pos(L_gotodotted)].args, "x") =
       <<"t", "a", "r", "g", "e", "t", ".", "x">>
  /\ IsNaN(ParseInt(<<"t", "a", "r", "g", "e", "t", ".", "x">>))
  /\ result = Catch(4, Msg_GoToXY)

\* the script imports ai and neurons and creates bot, and nothing else
\* before its last line
NeuronsReady ==
  /\ Len(source) = 3
  /\ source[1] = Pos(L_import_ai_neurons)
  /\ source[2] \in {Pos(L_bot), Pos(L_bot2)}

\* C22 as stated: after `import ai, neurons` and the creation of bot,
\* neurons.create_network(sprite=bot) emits exactly one CREATE_NETWORK step
\* with bot's id, neurons.reward(sprite=bot, value=1) and
\* neurons.reward(sprite=bot) emit exactly one REWARD_SPRITE step with bot's
\* id and the value 1, and none of the lines produces a problem
C22_Original ==
  (/\ pc = "returned"
   /\ NeuronsReady
   /\ source[3] \in {Pos(L_network), Pos(L_reward), Pos(L_rewardbare)}) =>
    /\ result.problems = <<>>
    /\ Len(result.steps) = 2
    /\ result.steps[2] =
         (IF source[3] = Pos(L_network)
          THEN [type |-> "CREATE_NETWORK",
                spriteId |-> result.steps[1].sprite.id, duration |-> Zero]
          ELSE [type |-> "REWARD_SPRITE",
                spriteId |-> result.steps[1].sprite.id, value |-> Num(1),
                duration |-> Zero])

\* what the parse of import ai, neurons / bot = ... /
\* neurons.reward(sprite=bot, value=1) returns: parseArgs has found value
\* and no sprite, since the bare word bot is none of the values its
\* expression knows; variables.get(undefined) finds nothing, the handler
\* throws, and the parse ends with a problem on line 3 and no steps
C22_Witness ==
  /\ pc = "returned"
  /\ NeuronsReady
  /\ source[3] = Pos(L_reward)
  /\ Arg(Analysis[Pos(L_reward)].args, "sprite") = <<>>
  /\ Arg(Analysis[Pos(L_reward)].args, "value") = <<"1">>
  /\ result = Catch(3, Msg_NeuronsRewardSprite)

\* the script imports ai and creates bot, and nothing else before its last
\* line
BotBound ==
  /\ Len(source) = 3
  /\ source[2] \in {Pos(L_bot), Pos(L_bot2)}

\* C23 as stated: on the bound variable bot, bot.create_network() emits
\* exactly one CREATE_NETWORK step for bot, bot.reward(value=1) and
\* bot.reward() emit exactly one REWARD_SPRITE step for bot with the value 1,
\* and none of the calls is a parse error
C23_Original ==
  (/\ pc = "returned"
   /\ BotBound
   /\ source[3] \in
        {Pos(L_botnetwork), Pos(L_botreward), Pos(L_botrewardbare)}) =>
    /\ result.problems = <<>>
    /\ Len(result.steps) = 2
    /\ result.steps[2] =
         (IF source[3] = Pos(L_botnetwork)
          THEN [type |-> "CREATE_NETWORK",
                spriteId |-> result.steps[1].sprite.id, duration |-> Zero]
          ELSE [type |-> "REWARD_SPRITE",
                spriteId |-> result.steps[1].sprite.id, value |-> Num(1),
                duration |-> Zero])

\* what the parse of import ai / bot = ... / bot.create_network() returns:
\* the class has no create_network, so the property is no function, the
\* sprite call branch throws, and the parse ends with a problem on line 3
\* and no steps
C23_Witness ==
  /\ pc = "returned"
  /\ BotBound
  /\ source[3] = Pos(L_botnetwork)
  /\ ~IsFunction("create_network")
  /\ ~IsFunction("reward")
  /\ result = Catch(3, <<"'", "b", "o", "t">> \o Msg_NoMethod_2
                         \o <<"c", "r", "e", "a", "t", "e", "_", "n", "e",
                              "t", "w", "o", "r", "k">> \o Msg_NoMethod_3)

\* the last line prints bot's position and rotation, in the Python or in the
\* JavaScript form of the template
PrintsPosition == source[Len(source)] \in {Pos(L_printpos), Pos(L_printposjs)}

\* the lines that place bot, and what they are written to set x and y to
PlacingLines ==
  {Pos(L_bot), Pos(L_bot2), Pos(L_move), Pos(L_move0), Pos(L_goto3)}

WrittenXY(k) ==
  CASE k = Pos(L_bot) -> <<"1", "0", " ", "1", "0">>
    [] k = Pos(L_bot2) -> <<"5", "0", " ", "5", "0">>
    [] k = Pos(L_move) -> <<"8", "0", " ", "2", "5">>
    [] k = Pos(L_move0) -> <<"5", " ", "-", "5">>
    [] k = Pos(L_goto3) -> <<"3", "0", " ", "4", "0">>

\* the last line of the script that places bot
LastPlacing ==
  LET P == {n \in 1..Len(source) : source[n] \in PlacingLines}
  IN  source[CHOOSE n \in P : \A q \in P : q <= n]

\* the rotation the script leaves bot with
WrittenRotation ==
  IF \E n \in 1..Len(source) : source[n] = Pos(L_botrot)
  THEN <<"9", "0">> ELSE <<"0">>

\* target is created at most once
TargetOnce ==
  Cardinality({n \in 1..Len(source) : source[n] = Pos(L_target)}) <= 1

\* C28: a script that creates bot, moves and turns it with move_to, go_to
\* and rotate_to, and then prints {bot.x} {bot.y} {bot.rotation} (or the
\* ${...} forms) returns no problem, and its last step is a LOG step whose
\* text holds the x and y of the most recent move_to or go_to, or those of
\* the construction when there was none, and the angle of rotate_to, or 0
C28_PrintSeesMoves ==
  (pc = "returned" /\ PrintsPosition /\ TargetOnce) =>
    /\ result.problems = <<>>
    /\ result.steps[Len(result.steps)] =
         [type |-> "LOG",
          message |-> Str(WrittenXY(LastPlacing) \o <<" ">> \o WrittenRotation),
          duration |-> Zero]

\* the parse of import ai / bot = ai.Sprite(name: "B1", x: 10, y: 10) /
\* bot.move_to(x=80, y=25) / bot.go_to(x=30, y=40) / print(f"{bot.x} {bot.y}
\* {bot.rotation}") has returned: the text is that of go_to
C28_Witness ==
  /\ pc = "returned"
  /\ source = <<Pos(L_import_ai), Pos(L_bot), Pos(L_move), Pos(L_goto3),
                Pos(L_printpos)>>
  /\ Len(result.steps) = 4
  /\ result.steps[2].type = "MOVE_TO"
  /\ result.steps[3].type = "GO_TO"
  /\ result.steps[4].message = "30 40 0"

\* the print lines whose expression cannot be resolved in a script that binds
\* bot and target only: an unbound variable, no property part, a property
\* the sprite does not have, nothing between the braces, an expression
\* padded with spaces, and spaces only
UnresolvedPrints ==
  {Pos(L_printunbound), Pos(L_printnoprop), Pos(L_printabsent),
   Pos(L_printempty), Pos(L_printpadded), Pos(L_printspace)}

\* the text between print(" and ") of line k
TemplateText(k) == SubSeq(Lines[k], 8, Len(Lines[k]) - 2)

\* C29 as stated: a print whose ${expr} or {expr} cannot be resolved is no
\* parse error, and the LOG step it emits carries the template character for
\* character as it was written
C29_Original ==
  (/\ pc = "returned"
   /\ TargetOnce
   /\ source[Len(source)] \in UnresolvedPrints) =>
    /\ result.problems = <<>>
    /\ result.steps[Len(result.steps)] =
         [type |-> "LOG",
          message |-> Str(TemplateText(source[Len(source)])),
          duration |-> Zero]

\* what import ai / bot = ... / print("at { foe.x }") returns: no problem,
\* and a LOG step whose text has lost the spaces inside the braces
C29_Witness ==
  /\ pc = "returned"
  /\ source = <<Pos(L_import_ai), Pos(L_bot), Pos(L_printpadded)>>
  /\ TemplateText(Pos(L_printpadded)) =
       <<"a", "t", " ", "{", " ", "f", "o", "e", ".", "x", " ", "}">>
  /\ result.problems = <<>>
  /\ Len(result.steps) = 2
  /\ result.steps[2] = [type |-> "LOG", message |-> "at {foe.x}",
                        duration |-> Zero]

(***************************************************************************)
(* The numbers parseWorldHTML reads from the style attribute.              *)
(***************************************************************************)

\* left, top, width and height as the style attribute of each prop element
\* of Elements gives them, with 50, 50, 10, 10 where the field is missing
\* (the element without style; height of the third) or no number (top: abc)
StyledBox ==
  [k \in 1..3 |->
     CASE k = 1 -> [x |-> Num(10), y |-> Num(20), width |-> Num(30),
                    height |-> Num(5)]
       [] k = 2 -> [x |-> Num(50), y |-> Num(50), width |-> Num(10),
                    height |-> Num(10)]
       [] k = 3 -> [x |-> Num(0), y |-> Num(50),
                    width |-> [m |-> 125, e |-> 1], height |-> Num(10)]]

\* C30 as stated: every prop the world loader has built has the x, y, width
\* and height of the left, top, width and height fields of its element's
\* style where the field is present and numeric, the value 0 included, and
\* 50, 50, 10, 10 where the field is missing or not numeric
C30_Original ==
  \A n \in 1..Len(worldSteps) :
    LET Same(prop, box) ==
          /\ prop.x = box.x
          /\ prop.y = box.y
          /\ prop.width = box.width
          /\ prop.height = box.height
    IN  Same(worldSteps[n].prop,
             StyledBox[querySelectorAll_prop(worldHtml)[n]])

\* parseWorldHTML has returned the prop of the element with the style
\* left: 0%; top: abc; width: 12.5%; : the width is the one of the style, the
\* left field, which reads 0, has become 50
C30_Witness ==
  /\ wpc = "switch"
  /\ worldHtml = <<3>>
  /\ Elements[3] = E_rock
  /\ ParseFloat(Arg(styleProps(E_rock.style), "left")) = Num(0)
  /\ Len(worldSteps) = 1
  /\ worldSteps[1].prop.x = Num(50)
  /\ worldSteps[1].prop.width = [m |-> 125, e |-> 1]

(***************************************************************************)
(* Properties of one run of the player.                                    *)
(***************************************************************************)

\* the run began at index 0: either its first render is still due, or the
\* animation frame requested after the first step is queued (a callback
\* that ran requests the next frame for itself, and a run resumed at a later
\* index never captures index 0)
RunFromStart ==
  \/ currentStep = 0 /\ lastEvent = "toggle"
  \/ \E c \in BagToSet(callbacks) : c.k = 0

\* the world changed because the step at the index was applied to it, after
\* the physics tick, and the index moved on by one
AppliedInOrder ==
  /\ currentStep < Len(executionSteps)
  /\ gameState' = processStep(physicsTick(gameState),
                              executionSteps[currentStep + 1])
  /\ currentStep' = currentStep + 1

\* C24 as stated: during an uninterrupted run from index 0, as long as the
\* player is running, the index never decreases and the world changes only
\* by the step at the index being applied, the index moving on by one: every
\* step is applied once and in index order
C24_Original ==
  [][(RunFromStart /\ isRunning) =>
       /\ currentStep' >= currentStep
       /\ gameState' # gameState => AppliedInOrder]_vars

\* the run of CREATE_SPRITE, SAY, WAIT, CLEAR_MESSAGE from index 0 after the
\* frame requested behind CREATE_SPRITE has fired: the callback, which
\* captured index 0, has applied CREATE_SPRITE a second time while the
\* player is running at index 1
C24_Witness ==
  /\ executionSteps = Replay_say
  /\ lastEvent = "frame"
  /\ isRunning
  /\ currentStep = 1
  /\ rendered.currentStep = 0
  /\ Len(gameState.sprites) = Len(replayWorld(Replay_say).sprites) + 2
  /\ \E c \in BagToSet(callbacks) : c.kind = "frame" /\ c.k = 0

\* no two members of the list have the same id
DistinctIds(list) ==
  \A m, n \in DOMAIN list : list[m].id = list[n].id => m = n

\* C25 as stated: in every state of the player the world holds no two
\* sprites with the same id and no two props with the same id
C25_Original ==
  /\ DistinctIds(gameState.sprites)
  /\ DistinctIds(gameState.props)

\* the first step of a run from the Ready state a compile has built: the
\* world of the preview held the sprite of CREATE_SPRITE already, and the
\* step at index 0 has pushed it again
C25_Witness ==
  /\ executionSteps = Replay_say
  /\ lastEvent = "render"
  /\ isRunning
  /\ rendered.currentStep = 0
  /\ currentStep = 1
  /\ replayWorld(Replay_say).sprites = <<PushedSprite(Replay_say[1].sprite)>>
  /\ gameState.sprites = <<PushedSprite(Replay_say[1].sprite),
                           PushedSprite(Replay_say[1].sprite)>>

(***************************************************************************)
(* Properties of the step button.                                          *)
(***************************************************************************)

\* the request applied the step at the index and the index moved on by one,
\* at once or, for a step that awaits a reply, when the reply settles (the
\* request then waits with the index it will move on from)
StepsOnce ==
  /\ gameState' = processStep(gameState, executionSteps[currentStep + 1])
  /\ \/ currentStep' = currentStep + 1 /\ awaits' = awaits
     \/ /\ currentStep' = currentStep
        /\ \E a \in BagToSet(awaits') :
             /\ a.fn = "handleStepForward"
             /\ a.k = currentStep
             /\ awaits' = awaits (+) SetToBag({a})

\* a request of the step button is waiting for the reply of the step at
\* the index
StepAwaited ==
  \E a \in BagToSet(awaits) : a.fn = "handleStepForward" /\ a.k = currentStep

\* C26 as stated: a Step-forward request is accepted only when the player is
\* not running and the index is below the length of the sequence; it applies
\* the step at the index and moves the index on by one, and a request issued
\* while an earlier one still awaits its step does not apply that step again
C26_Original ==
  [][lastEvent' = "step" =>
       /\ ~isRunning
       /\ currentStep < Len(executionSteps)
       /\ ~StepAwaited
       /\ StepsOnce]_vars

\* the step button pressed twice on the AI_CHAT_REQUEST at index 2, the
\* second time while the first request awaits the reply: the request was
\* made twice, both calls wait with index 2, and the index is still 2
C26_Witness ==
  /\ executionSteps = Replay_chat
  /\ lastEvent = "step"
  /\ ~isRunning
  /\ rendered.currentStep = 2
  /\ currentStep = 2
  /\ BagCardinality(awaits) = 2
  /\ \A a \in BagToSet(awaits) : a.fn = "handleStepForward" /\ a.k = 2
  /\ callbacks = EmptyBag

\* the step changed the world by a step being applied: by the step button,
\* or by runNextStep called from the effect, a timer or an animation frame
StepApplied ==
  /\ lastEvent' \in {"step", "render", "timeout", "frame"}
  /\ gameState' # gameState

\* the new world is the old one after one physics tick and one step of the
\* sequence
TickThenStep ==
  \E n \in DOMAIN executionSteps :
    gameState' = processStep(physicsTick(gameState), executionSteps[n])

\* C27 as stated: every application of a step, by the running loop or by
\* Step-forward, is preceded by exactly one physics tick, whatever the step
C27_Original == [][StepApplied => TickThenStep]_vars

\* Step-forward on SET_GRAVITY(50) and then on CREATE_SPRITE: the second
\* request has pushed the sprite, and the sprite the preview held, on which
\* gravity 50 acts, has not fallen
C27_Witness ==
  /\ executionSteps = Replay_fall
  /\ lastEvent = "step"
  /\ ~isRunning
  /\ currentStep = 2
  /\ callbacks = EmptyBag
  /\ gameState.gravity = Num(50)
  /\ Len(gameState.sprites) = 2
  /\ gameState.sprites[1].y = Num(50)
  /\ gameState.sprites[1].vy = Zero
  /\ physicsTick(gameState).sprites[1].y = Num(95)

(***************************************************************************)
(* The elements parseWorldHTML turns into props.                           *)
(***************************************************************************)

\* the elements of a document that carry the class prop and a data-shape
\* attribute, in document order
ShapedProps(doc) ==
  SelectSeq(doc, LAMBDA k : /\ "prop" \in Elements[k].classList
                            /\ Elements[k].shape # <<>>)

\* C31 as stated: when parseWorldHTML has returned, its steps are one
\* CREATE_PROP step for each element that carries both the class prop and a
\* data-shape attribute, in document order, with the shape of the attribute;
\* an element with the class and no data-shape attribute, like an element
\* without the class, has no step
C31_Original ==
  (wpc \in {"switch", "returned"} /\ hasWorldFile /\ domParser) =>
    /\ Len(worldSteps) = Len(ShapedProps(worldHtml))
    /\ \A n \in 1..Len(worldSteps) :
         /\ worldSteps[n].type = "CREATE_PROP"
         /\ n <= Len(ShapedProps(worldHtml)) =>
              worldSteps[n].prop.shape =
                Str(Elements[ShapedProps(worldHtml)[n]].shape)

\* parseWorldHTML has returned for a document whose only elements are one
\* with the class prop and no data-shape attribute and one without the
\* class: there is one CREATE_PROP step, of shape rock
C31_Witness ==
  /\ wpc = "switch"
  /\ hasWorldFile
  /\ domParser
  /\ worldHtml = <<2, 4>>
  /\ Elements[2].shape = <<>>
  /\ "prop" \notin Elements[4].classList
  /\ ShapedProps(worldHtml) = <<>>
  /\ Len(worldSteps) = 1
  /\ worldSteps[1].type = "CREATE_PROP"
  /\ worldSteps[1].prop.shape = "rock"

(***************************************************************************)
(* Properties of the steps applied to the world.                           *)
(***************************************************************************)

\* the identifier and the brain of every sprite of a world, in order
BrainsOf(g) ==
  [n \in DOMAIN g.sprites |->
     [id |-> g.sprites[n].id, brain |-> g.sprites[n].brain]]

\* what one step does to that list when rewards are tracked as described: a
\* created sprite has no brain, network creation sets the counter of its
\* sprite to 0, a reward adds its value to the counter of a sprite that has
\* one and gives no counter to a sprite that has none
Tracked(brains, step) ==
  LET first == IF "spriteId" \in DOMAIN step
               THEN {n \in DOMAIN brains :
                       /\ brains[n].id = step.spriteId
                       /\ \A q \in 1..(n - 1) : brains[q].id # step.spriteId}
               ELSE {}
  IN  CASE step.type = "CREATE_SPRITE" ->
             Append(brains, [id |-> step.sprite.id, brain |-> <<>>])
        [] step.type = "DELETE_SPRITE" ->
             SelectSeq(brains, LAMBDA b : b.id # step.spriteId)
        [] step.type = "SPRITE_CREATE_NETWORK" ->
             [n \in DOMAIN brains |->
                IF n \in first
                THEN [id |-> brains[n].id, brain |-> <<[rewards |-> Zero]>>]
                ELSE brains[n]]
        [] step.type = "SPRITE_REWARD" ->
             [n \in DOMAIN brains |->
                IF n \in first /\ brains[n].brain # <<>>
                THEN [id |-> brains[n].id,
                      brain |-> <<[rewards |->
                                     NumPlus(brains[n].brain[1].rewards,
                                             step.value)]>>]
                ELSE brains[n]]
        [] OTHER -> brains

\* C32 as stated, step by step: the sprites of the preview have no brain, and
\* whenever the brains of the world change, one step of the sequence has been
\* applied and the change is the tracked one, so that a counter is the sum of
\* the rewards applied to its sprite since the last network creation and a
\* reward applied to a sprite without network gives it no counter
C32_Original ==
  [][BrainsOf(gameState') # BrainsOf(gameState) =>
       \E n \in DOMAIN executionSteps :
         BrainsOf(gameState') = Tracked(BrainsOf(gameState), executionSteps[n])
    ]_vars

\* the step button has applied SPRITE_REWARD(s1, 2) of a sequence without
\* network creation: s1 has a counter, and it stands at 2
C32_Witness ==
  /\ lastEvent = "step"
  /\ currentStep = 3
  /\ Len(executionSteps) = 3
  /\ executionSteps[3] = Step_reward("s1", 2)
  /\ \A n \in DOMAIN executionSteps :
       executionSteps[n].type # "SPRITE_CREATE_NETWORK"
  /\ gameState.sprites[1].id = "s1"
  /\ gameState.sprites[1].brain = <<[rewards |-> Num(2)]>>

\* the identifier a step carries: the id of the sprite, zone or prop it
\* creates, or its spriteId; the empty sequence when it carries none
IdOf(step) ==
  CASE step.type = "CREATE_SPRITE" -> <<step.sprite.id>>
    [] step.type = "CREATE_ZONE" -> <<step.zone.id>>
    [] step.type = "CREATE_PROP" -> <<step.prop.id>>
    [] "spriteId" \in DOMAIN step -> <<step.spriteId>>
    [] OTHER -> <<>>

\* the step list with each generated id replaced by the index of the first
\* step that carries it
Renamed(stepList) ==
  LET FirstAt(id) ==
        CHOOSE n \in 1..Len(stepList) :
          /\ IdOf(stepList[n]) = id
          /\ \A q \in 1..(n - 1) : IdOf(stepList[q]) # id
      Put(step, id) ==
        CASE step.type = "CREATE_SPRITE" -> [step EXCEPT !.sprite.id = id]
          [] step.type = "CREATE_ZONE" -> [step EXCEPT !.zone.id = id]
          [] step.type = "CREATE_PROP" -> [step EXCEPT !.prop.id = id]
          [] "spriteId" \in DOMAIN step -> [step EXCEPT !.spriteId = id]
          [] OTHER -> step
  IN  [n \in 1..Len(stepList) |->
         IF IdOf(stepList[n]) = <<>> THEN stepList[n]
         ELSE Put(stepList[n], FirstAt(IdOf(stepList[n])))]

\* C33: a script whose method calls are written with ':' for '.' (and '.'
\* for ':') between target and method and whose keyword arguments are
\* written name: value for name=value (and the reverse) returns the same
\* problems and, up to the generated ids, the same steps as the script in
\* the other spelling, for every command of the vocabulary
C33_SpellingsAgree ==
  (run = 3 /\ pc = "returned") =>
    /\ result.problems = firstResult.problems
    /\ Renamed(result.steps) = Renamed(firstResult.steps)

\* foe:rotate_to(angle:90, speed:.5) parsed behind the creation of bot and
\* foe, after the same script in the other spelling: three steps, the turn
\* naming foe, and another id for bot than in the first parse
C33_Witness ==
  /\ run = 3
  /\ pc = "returned"
  /\ source = <<Twin(Pos(L_import_ai_world)), Twin(Pos(L_import_rest)),
                Twin(Pos(L_bot)), Twin(Pos(L_foe2)), Twin(Pos(L_rot05))>>
  /\ Lines[source[5]] # Lines[Pos(L_rot05)]
  /\ Len(result.steps) = 3
  /\ result.steps[3].type = "ROTATE_TO"
  /\ result.steps[3].spriteId = result.steps[2].sprite.id
  /\ result.steps[1].sprite.id # firstResult.steps[1].sprite.id
  /\ firstResult.problems = <<>>

\* C34: in the steps a parse without problems returns, every step that
\* carries a spriteId names the sprite of a CREATE_SPRITE step that stands
\* earlier in the same sequence, and no step is a DELETE_SPRITE step
C34_SpritesCreatedFirst ==
  (pc = "returned" /\ result.problems = <<>>) =>
    \A n \in 1..Len(result.steps) :
      /\ result.steps[n].type # "DELETE_SPRITE"
      /\ "spriteId" \in DOMAIN result.steps[n] =>
           \E q \in 1..(n - 1) :
             /\ result.steps[q].type = "CREATE_SPRITE"
             /\ result.steps[q].sprite.id = result.steps[n].spriteId

\* bot and foe created, then foe.rotate_to(angle=90, speed=.5): the third
\* step names the sprite of the second step, not of the first
C34_Witness ==
  /\ run = 0
  /\ pc = "returned"
  /\ result.problems = <<>>
  /\ source = <<Pos(L_import_ai_world), Pos(L_import_rest), Pos(L_bot),
                Pos(L_foe2), Pos(L_rot05)>>
  /\ Len(result.steps) = 3
  /\ result.steps[3].type = "ROTATE_TO"
  /\ result.steps[3].spriteId = result.steps[2].sprite.id
  /\ result.steps[3].spriteId # result.steps[1].sprite.id

\* C35: the player is never Running while a parse started by Run is in
\* progress: starting a run stops playback, and nothing scheduled earlier
\* (such as the delayed start that follows the reset of a finished replay)
\* sets the player Running before the new steps are installed and the index
\* is back at 0
C35_Original == ~(isRunning /\ isExecuting)

\* the delayed start of handleToggleReplay has expired while parseCode was in
\* flight: the player is Running and executing
C35_Witness ==
  /\ isRunning
  /\ isExecuting
  /\ lastEvent = "replay"

\* the identifier a line starts with
HeadWord(line) == Slice(line, 1, RunEnd(line, 1, WordChar))

\* the name argument written on a construction line
WrittenName(line) == Value(extractNamedArgs(line), "name")

\* the positions in the script, up to line upto, of the construction lines
\* that bind v and carry a name
Bindings(v, upto) ==
  {n \in 1..upto :
     /\ HeadWord(Lines[source[n]]) = v
     /\ creationPattern_match(Lines[source[n]]).ok
     /\ Defined(extractNamedArgs(Lines[source[n]]), "name")}

\* C36: the steps that a method call on variable v emits carry the id of the
\* sprite created by the construction line that bound v, also when other
\* sprites were created before v
C36_Original ==
  [][(run = 4 /\ i' = i + 1 /\ Len(steps') > Len(steps)) =>
       \A n \in (Len(steps) + 1)..Len(steps') :
         "spriteId" \in DOMAIN steps'[n] =>
           \E b \in Bindings(HeadWord(Lines[source[i']]), i) :
             \E q \in 1..Len(steps) :
               /\ steps[q].type = "CREATE_SPRITE"
               /\ steps[q].sprite.name = WrittenName(Lines[source[b]])
               /\ steps[q].sprite.id = steps'[n].spriteId]_vars

\* bot created, foe created, foe.reward(value=3): the reward step names the
\* sprite B1 of bot, not the sprite F1 of foe
C36_Witness ==
  /\ run = 4
  /\ pc = "returned"
  /\ source = <<Pos(L_bot), Pos(L_foe2), Pos(L_foereward)>>
  /\ result.problems = <<>>
  /\ Len(result.steps) = 3
  /\ result.steps[2].sprite.name = "F1"
  /\ result.steps[3].type = "SPRITE_REWARD"
  /\ result.steps[3].value = Num(3)
  /\ result.steps[3].spriteId = result.steps[1].sprite.id
  /\ result.steps[3].spriteId # result.steps[2].sprite.id

\* the step types that act on the sprite their spriteId names
TargetedTypes ==
  {"SAY", "CLEAR_MESSAGE", "MOVE_TO", "GO_TO", "SET_STYLE", "SET_DATA",
   "ROTATE_TO", "LOOK_AT", "AI_CHAT_REQUEST", "SPRITE_CREATE_NETWORK",
   "SPRITE_REWARD"}

\* the step is sprite-targeted and no sprite of the world g has its spriteId
NamesNoSprite(step, g) ==
  /\ step.type \in TargetedTypes
  /\ \A n \in 1..Len(g.sprites) : g.sprites[n].id # step.spriteId

InRange(v, lo, hi) == ~IsNaN(v) /\ ~NumBelow(v, lo) /\ ~NumAbove(v, hi)

\* the sprite after as the claim has it after a tick on the sprite before:
\* inside the world, and at rest along an axis on which it was clamped
TickedInside(before, after, gravity) ==
  /\ InRange(after.x, 0, 100)
  /\ InRange(after.y, 0, 95)
  /\ ~InRange(NumPlus(before.x, before.vx), 0, 100) => after.vx = Zero
  /\ ~InRange(NumPlus(before.y, NumPlus(before.vy, gravity)), 0, 95)
       => after.vy = Zero

\* C38: a physics tick with non-zero gravity leaves every sprite at
\* 0 <= x <= 100 and 0 <= y <= 95, with the velocity component of a clamped
\* coordinate at 0; with gravity 0 a tick leaves every sprite's position and
\* velocity unchanged.  Stated of the tick on every world the player reaches
C38_Original ==
  IF gameState.gravity = Zero
  THEN physicsTick(gameState).sprites = gameState.sprites
  ELSE \A n \in 1..Len(gameState.sprites) :
         TickedInside(gameState.sprites[n],
                      physicsTick(gameState).sprites[n], gameState.gravity)

\* the loop has ticked once with gravity -50 on the sprite created at x = NaN,
\* y = 50: it has fallen to y = 0 with vy = -50, and its x is still NaN
C38_Witness ==
  /\ lastEvent \in {"render", "frame", "timeout"}
  /\ gameState.gravity = Num(-50)
  /\ Len(gameState.sprites) >= 1
  /\ IsNaN(gameState.sprites[1].x)
  /\ gameState.sprites[1].y = Zero
  /\ gameState.sprites[1].vy = Num(-50)

\* C39: every step of a sequence returned by a successful parseUniversalCode
\* has a duration that is a number greater than or equal to 0, so a timed
\* command given negative seconds yields no step of negative duration
C39_Original ==
  (pc = "returned" /\ result.problems = <<>>) =>
    \A n \in 1..Len(result.steps) :
      /\ "duration" \in DOMAIN result.steps[n]
      /\ ~IsNaN(result.steps[n].duration)
      /\ ~NumBelow(result.steps[n].duration, 0)

\* the script with bot.say(message="hi", duration=-1) has been parsed without
\* a problem and its WAIT step lasts -1000 ms
C39_Witness ==
  /\ pc = "returned"
  /\ run = 0
  /\ source = <<Pos(L_import_ai_world), Pos(L_import_rest), Pos(L_bot),
                Pos(L_saynegative)>>
  /\ result.problems = <<>>
  /\ Len(result.steps) = 4
  /\ result.steps[3].type = "WAIT"
  /\ result.steps[3].duration = Num(-1000)

====
